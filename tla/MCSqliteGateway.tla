-------------------------- MODULE MCSqliteGateway --------------------------
(* Instances of SqliteGateway for TLC. *)
EXTENDS SqliteGateway, TLC
CONSTANTS c1, c2

=============================================================================
