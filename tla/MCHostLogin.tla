---------------------------- MODULE MCHostLogin ----------------------------
(* Two connections from two addresses of one IPv6 prefix. *)
EXTENDS HostLogin

CONSTANTS c1, c2, p1, p2, a1, a2, net

Ask(p, type) == [peer |-> p, type |-> type]

MCAddressOf == [c \in Conns |-> IF c = c1 THEN a1 ELSE a2]
MCPrefixesOf == [c \in Conns |-> {net}]
MCLimit == [k \in Buckets |-> IF k = net THEN 0 ELSE 1]

(* The peer p2 is not on the id whitelist. *)
MCAsks == [c \in Conns |-> IF c = c1 THEN {Ask(p1, "remote"), Ask(p1, "terminal")} ELSE {Ask(p1, "forward"), Ask(p2, "remote")}]
MCMaxLogins == [c \in Conns |-> IF c = c1 THEN 2 ELSE 1]

(* Two logins to a terminal at the same time, or one and a stranger. *)
OsAsks == [c \in Conns |-> IF c = c1 THEN {Ask(p1, "terminal")} ELSE {Ask(p1, "terminal"), Ask(p2, "remote")}]
OsLimit == [k \in Buckets |-> 1]
OsMaxLogins == [c \in Conns |-> 1]
=============================================================================
