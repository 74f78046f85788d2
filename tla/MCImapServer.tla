------------------------------ MODULE MCImapServer ------------------------------
(* Instances of ImapServer for TLC. *)
EXTENDS ImapServer, TLC

CONSTANTS c1, c2

\* A literal that is itself CR LF, and LOGOUT; a literal, an empty line
\* and another command; two short commands, which one read may bring together.
MCScripts ==
  {<<"a", "{2}", "CR", "LF", "CR", "LF", "LOGOUT", "CR", "LF">>,
   <<"b", "{1}", "CR", "LF", "u", "CR", "LF", "d", "CR", "LF">>,
   <<"c", "CR", "LF", "d", "CR", "LF">>}
=================================================================================
