---------------------------- MODULE MCShellStream -----------------------------
(* Two chats: what is missed of one must not hide behind the other. *)
EXTENDS ShellStream

CONSTANTS t1, t2
TwoThreads == {t1, t2}
===============================================================================
