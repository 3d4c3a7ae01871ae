----------------------------- MODULE MCStartup ------------------------------
(***************************************************************************)
(* A buffer of two units and files of up to three; the shipped descriptor  *)
(* and its variations: one member of another kind, a hash_key or an ip     *)
(* that ends right before or behind its place, or reaches the members      *)
(* behind it, ports that do not fit, none, one or two nodes; up to four    *)
(* arguments of three ports whose distances meet and wrap.                 *)
(***************************************************************************)
EXTENDS Startup

MCPort == 0..2
MCXor == [h \in Hash |-> [p \in Port |->
            IF h = "same" THEN 1
            ELSE CASE p = 0 -> 9 [] p = 1 -> -6 [] p = 2 -> 2]]

Kinds == {"absent", "string", "number", "other"}
At(port) == [ip |-> "string", ip_len |-> 9, port |-> "number", valueint |-> port]
Shipped == [file |-> "object", path |-> "string", name |-> "string",
            length |-> "number", hash_key |-> "string", hash_len |-> 2,
            piece_length |-> "number", nodes |-> "array", list |-> <<At(1)>>]
Nodes == {At(-1), At(1), [At(5) EXCEPT !.ip_len = 16],
          [At(1) EXCEPT !.port = "absent"], [At(1) EXCEPT !.ip = "absent"]}
MCDescriptors ==
  {Shipped}
    \cup {[Shipped EXCEPT ![m] = k] :
            m \in {"path", "name", "length", "hash_key", "piece_length"}, k \in Kinds}
    \cup {[Shipped EXCEPT !.hash_len = n] : n \in {35, 36, 40, 48, 64, 72}}
    \cup {[Shipped EXCEPT !.file = k, !.path = "absent", !.name = "absent",
                          !.length = "absent"] : k \in Kinds}
    \cup {[Shipped EXCEPT !.nodes = k, !.list = <<>>] : k \in Kinds}
    \cup {[Shipped EXCEPT !.list = k] :
            k \in UNION {[1..n -> Nodes] : n \in 0..2}}
=============================================================================
