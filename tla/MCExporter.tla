----------------------------- MODULE MCExporter -----------------------------
(***************************************************************************)
(* Exporter for TLC: three days, the last of them the first of a month,    *)
(* two tables, and a row that is added and updated.                        *)
(***************************************************************************)
EXTENDS Exporter, TLC

CONSTANTS t1, t2, x

MCFolderOf == <<<<1, 1>>, <<1, 1>>, <<1, 2>>>>
MCTables   == <<t1, t2>>
MCTableOf  == x :> t1

=============================================================================
