--------------------------- MODULE MCPathSelector ---------------------------
(* Directories of nine relays whose operators and capabilities vary.       *)
EXTENDS PathSelector
CONSTANTS e1, e2, m1, r1, x1, x2, h1, h2, h3

V4(wide, narrow) == [fam |-> 4, wide |-> wide, narrow |-> narrow]
Public(id, tier, op, ip, capable) ==
    [id |-> id, tier |-> tier, op |-> op, ip |-> ip, rendezvous |-> None, capable |-> capable]
Hosted(id, op, r) ==
    [id |-> id, tier |-> "Mix", op |-> op, ip |-> None, rendezvous |-> r, capable |-> FALSE]

\* x2 shares the /16 of e1; m1 is reached over IPv6; h3 names a point that is
\* itself hosted.
Relays(op, capable) ==
    {Public(e1, "Entry", op[e1], V4("n1", "a"), FALSE),
     Public(e2, "Entry", "E", V4("n2", "a"), FALSE),
     Public(m1, "Mix", op[m1], [fam |-> 6, wide |-> "n1", narrow |-> "a"], FALSE),
     Public(r1, "Mix", op[r1], V4("n4", "a"), capable),
     Public(x1, "Exit", op[x1], V4("n5", "a"), TRUE),
     Public(x2, "Exit", "X", V4("n1", "b"), FALSE),
     Hosted(h1, "A", r1), Hosted(h2, "B", x1), Hosted(h3, "B", h1)}

MCDirectories ==
    {Relays(op, c) : op \in [{e1, m1, r1, x1} -> {"A", "B", "C", None}], c \in BOOLEAN}
\* Two empty pools and a fleet whose rendezvous point is not listed.
MCAll == MCDirectories \cup
    {{d \in Relays([i \in {e1, m1, r1, x1} |-> "A"], TRUE) : d.id \notin gone} :
        gone \in {{e1, e2}, {x1, x2}, {r1}}}
MCGuards == {{}, {e2}}
MCExits == {x1}
=============================================================================
