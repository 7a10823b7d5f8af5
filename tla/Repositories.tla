---------------------------- MODULE Repositories ----------------------------
(***************************************************************************)
(* The repositories as the services, the handlers and the tools hold them: *)
(* the ports of Inventory on the one database.                             *)
(***************************************************************************)
EXTENDS Database

INV == INSTANCE Inventory
=============================================================================
