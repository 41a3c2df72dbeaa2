---------------------------- MODULE PathSelector ----------------------------
(***************************************************************************)
(* PathSelector::pick and pick_to_exit of crypto-gotham directory.rs, with *)
(* every random choice left open: an entry, mixes in shuffled order, an    *)
(* exit, and a new try when a try does not work out.  A mix that is hosted *)
(* by a rendezvous point brings that point along as a hop before it.       *)
(***************************************************************************)
EXTENDS Directory

CONSTANTS
    Directories,    \* directories to select from: sets of descriptors
    Guards,         \* sets of entry guards a client may have (ids)
    HopCounts,      \* hop counts asked for
    Exits,          \* exits asked for by pick_to_exit (ids)
    MAX_TRIES       \* 32 in the code

VARIABLES
    dir,            \* the directory
    guards,         \* the client's entry guards
    mix_count,      \* hop_count - 2
    exit,           \* None: pick; an id: pick_to_exit
    pc,             \* "entry", "mix", "exit", "path" or "error"
    hops, left,     \* hops so far, mixes not looked at yet
    placed,         \* mixes placed
    tries           \* tries used up

vars == <<dir, guards, mix_count, exit, pc, hops, left, placed, tries>>

Target == {d \in dir : d.id = exit}

\* Relays of a tier that can be dialled, the chosen exit left out.
Direct(tier) == {d \in dir : d.tier = tier /\ d.rendezvous = None /\ d.id # exit}

entry_pool ==
    LET guarded == {d \in Direct("Entry") : d.id \in guards}
    IN  IF guarded = {} THEN Direct("Entry") ELSE guarded

\* pick also considers hosted mixes; pick_to_exit does not.
mixes == IF exit = None THEN {d \in dir : d.tier = "Mix"} ELSE Direct("Mix")

used_ids == {hops[i].id : i \in DOMAIN hops} \cup (IF exit = None THEN {} ELSE {exit})

\* A direct mix must be diverse; of a hosted one, the rendezvous point must be.
MayPlace(m) ==
    IF m.rendezvous = None THEN path_diverse(hops, m, dir)
    ELSE \E r \in Get(dir, m.rendezvous) :
            /\ r.rendezvous = None
            /\ r.capable
            /\ r.id \notin used_ids
            /\ path_diverse(hops, r, dir)

With(m) ==
    IF m.rendezvous = None THEN <<m>>
    ELSE <<CHOOSE r \in Get(dir, m.rendezvous) : TRUE, m>>

Init ==
    /\ dir \in Directories
    /\ guards \in Guards
    /\ mix_count \in {h - 2 : h \in HopCounts}
    /\ exit \in Exits \cup {None}
    /\ exit # None => Target # {}
    /\ pc = "entry" /\ hops = <<>> /\ left = {} /\ placed = 0 /\ tries = 0

\* The next round of the loop over MAX_TRIES.
Try == /\ tries' = tries + 1
       /\ pc' = IF tries + 1 < MAX_TRIES THEN "entry" ELSE "error"
       /\ hops' = <<>> /\ left' = {} /\ placed' = 0

\* Not enough relays of some kind: no try is made.
Refuse ==
    /\ pc = "entry" /\ tries = 0
    /\ \/ entry_pool = {}
       \/ Cardinality(mixes) < mix_count
       \/ exit = None /\ Direct("Exit") = {}
    /\ pc' = "error"
    /\ UNCHANGED <<dir, guards, mix_count, exit, hops, left, placed, tries>>

ChooseEntry ==
    /\ pc = "entry"
    /\ Cardinality(mixes) >= mix_count
    /\ exit = None => Direct("Exit") # {}
    /\ \E e \in entry_pool : hops' = <<e>> /\ left' = {m \in mixes : m.id # e.id}
    /\ pc' = "mix" /\ placed' = 0
    /\ UNCHANGED <<dir, guards, mix_count, exit, tries>>

PlaceMix ==
    /\ pc = "mix" /\ placed < mix_count
    /\ \E m \in left :
        /\ MayPlace(m)
        /\ hops' = hops \o With(m)
        /\ left' = left \ {m}
    /\ placed' = placed + 1
    /\ UNCHANGED <<dir, guards, mix_count, exit, pc, tries>>

\* pick goes on with the next mix of the shuffle.
SkipMix ==
    /\ pc = "mix" /\ placed < mix_count /\ exit = None
    /\ \E m \in left : ~MayPlace(m) /\ left' = left \ {m}
    /\ UNCHANGED <<dir, guards, mix_count, exit, pc, hops, placed, tries>>

\* The mixes ran out, or pick_to_exit met one that does not fit.
NoMix ==
    /\ pc = "mix" /\ placed < mix_count
    /\ left = {} \/ (exit # None /\ \E m \in left : ~MayPlace(m))
    /\ Try
    /\ UNCHANGED <<dir, guards, mix_count, exit>>

MixesDone ==
    /\ pc = "mix" /\ placed = mix_count
    /\ pc' = "exit"
    /\ UNCHANGED <<dir, guards, mix_count, exit, hops, left, placed, tries>>

\* pick leaves out what is on the path; pick_to_exit has only one to offer.
candidate_exits ==
    {e \in IF exit = None THEN {d \in Direct("Exit") : d.id \notin used_ids} ELSE Target :
        path_diverse(hops, e, dir)}

ChooseExit ==
    /\ pc = "exit"
    /\ \E e \in candidate_exits : hops' = Append(hops, e)
    /\ pc' = "path"
    /\ UNCHANGED <<dir, guards, mix_count, exit, left, placed, tries>>

NoExit ==
    /\ pc = "exit" /\ candidate_exits = {}
    /\ Try
    /\ UNCHANGED <<dir, guards, mix_count, exit>>

Next == \/ Refuse \/ ChooseEntry \/ PlaceMix \/ SkipMix \/ NoMix
        \/ MixesDone \/ ChooseExit \/ NoExit

Spec == Init /\ [][Next]_vars

----------------------------------------------------------------------------
(* Properties                                                              *)

\* Every variable has its type and hops come from the directory.
TypeOK ==
    /\ pc \in {"entry", "mix", "exit", "path", "error"}
    /\ hops \in Seq(dir)
    /\ left \subseteq dir
    /\ placed \in 0..mix_count
    /\ tries \in 0..MAX_TRIES

\* hops[j] is hosted by the hop right before it.
Hosts(i, j) == j = i + 1 /\ hops[j].rendezvous = hops[i].id

\* Any two hops are provably run by different operators in different networks,
\* where a hosted relay counts as its point; only a point and the relay it
\* hosts, side by side, are one position.  In particular no relay is on a path
\* twice, as a mix and as the point of another mix, say.
PathDiverse ==
    \A i, j \in DOMAIN hops : i < j /\ ~Hosts(i, j) =>
        LET a == hops[i] b == hops[j] IN
        /\ eff_operator(a, dir) # None /\ eff_operator(b, dir) # None
        /\ eff_operator(a, dir) # eff_operator(b, dir)
        /\ LET ea == eff_diversity_ip(a, dir) eb == eff_diversity_ip(b, dir) IN
           ea # None /\ eb # None /\ ea.fam = eb.fam => ea.wide # eb.wide

\* The hop before a hosted relay is the point it keeps its tunnel to, and that
\* point takes tunnels: any other relay would have to drop the packet.
ReachableHops ==
    /\ TypeOK
    /\ \A j \in DOMAIN hops : hops[j].rendezvous # None =>
        j > 1 /\ Hosts(j - 1, j) /\ hops[j - 1].capable /\ hops[j - 1].rendezvous = None

\* A path that select_path returns can be used and is diverse.
PathSound == PathDiverse /\ ReachableHops
=============================================================================
