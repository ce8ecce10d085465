-------------------------------- MODULE MCPanel -------------------------------
(* Three values of one name: two of one record set, and a CNAME beside it. *)
EXTENDS Panel

Record(type, content) == [name |-> "www", type |-> type, content |-> content, ttl |-> 300]
MCValue == {Record("A", "one"), Record("A", "two"), Record("CNAME", "one")}
===============================================================================
