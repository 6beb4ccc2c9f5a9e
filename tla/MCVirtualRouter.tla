-------------------------- MODULE MCVirtualRouter --------------------------
(***************************************************************************)
(* A small network for TLC: a node c with a host z, and two gateways g and h of  *)
(* the network of the hosts x and k, where nothing has the address u.  xx, kk and  *)
(* zz are the addresses virtual nats give x, k and z, ww is one of a virtual nat     *)
(* whose masks differ; c may not send to k.                                            *)
(***************************************************************************)
EXTENDS VirtualRouter, FiniteSets

Nodes == {"c", "g", "h"}
Addresses == {"c", "g", "h", "x", "k", "u", "z", "xx", "kk", "zz", "ww", "all"}

Behind == [n \in Nodes |-> IF n = "c" THEN {"z"} ELSE {"x", "k"}]

Any == [cidr |-> Addresses, allow |-> TRUE]

Lists ==
    [n \in Nodes |->
        [route |-> <<[cidr |-> {"x", "k", "u"}, nexthop |-> <<"g", "h">>],
                     [cidr |-> {"z"}, nexthop |-> <<"c">>]>>,
         vnat |-> <<[cidr |-> {"xx", "kk"},
                     nat |-> [a \in Addresses |-> IF a = "xx" THEN "x" ELSE "k"],
                     alike |-> TRUE, vips |-> <<"g", "h">>],
                    [cidr |-> {"zz"}, nat |-> [a \in Addresses |-> "z"], alike |-> TRUE, vips |-> <<"c">>],
                    [cidr |-> {"ww"}, nat |-> [a \in Addresses |-> "x"], alike |-> FALSE, vips |-> <<"g">>]>>,
         ruleIn |-> <<Any>>,
         ruleOut |-> IF n = "c" THEN <<[cidr |-> {"k"}, allow |-> FALSE], Any>> ELSE <<Any>>]]

(* c and z use the gateways g and h. *)
Codes == [a \in Addresses |-> IF a = "c" THEN 0 ELSE 1]

Asks(n, s, i, d) == [node |-> n, src |-> s, id |-> i, dst |-> d]

(* An alias and the address itself, with two identifiers and with one; two hosts that ask *)
(* each other with one identifier; a host by a gateway its answers do not come back by, and *)
(* an alias the masks forbid; an alias the rules reject and an address nothing has; a         *)
(* broadcast.                                                                                   *)
Pairs ==
    {{Asks("c", "c", 1, "xx"), Asks("c", "c", 2, "x")},
     {Asks("c", "c", 1, "xx"), Asks("c", "c", 1, "x")},
     {Asks("h", "x", 1, "zz"), Asks("c", "z", 1, "xx")},
     {Asks("g", "x", 1, "zz"), Asks("c", "c", 1, "ww")},
     {Asks("c", "c", 1, "kk"), Asks("c", "z", 1, "u")},
     {Asks("c", "c", 2, "x"), Asks("g", "g", 1, "all")}}

Conversations == UNION Pairs

\* A host behind a node asks an alias, while the host it asks does the same.
Repeated == {Asks("c", "z", 1, "xx")}
=============================================================================
