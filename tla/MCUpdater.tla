----------------------------- MODULE MCUpdater -----------------------------
(* Small instances of Updater: two update tasks over three releases, so an   *)
(* update can follow another, repeat the running version or go back.         *)
EXTENDS Updater
=============================================================================
