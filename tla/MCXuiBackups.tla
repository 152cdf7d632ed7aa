---------------------------- MODULE MCXuiBackups ----------------------------
\* Two servers, the name of one of which begins with the name of the other.
EXTENDS XuiBackups

MCServer == {<<"eu">>, <<"eu", "1">>}
=============================================================================
