---- MODULE MCSshLogins ----
(* The login monitor of an SSH server by itself. *)
EXTENDS SshLogins
====
