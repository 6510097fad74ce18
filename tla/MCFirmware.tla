----------------------------- MODULE MCFirmware -----------------------------
(* Instances of Firmware for TLC, and the pattern match against a reference. *)
EXTENDS Firmware

Package(type, to, number, arc, data) ==
    [type |-> type, to |-> to, number |-> number, arc |-> arc, data |-> data]

\* Two levels and OFF for all; packages for number 0, which is also what an
\* empty package reads as, for an address, for groups, and for others.
Forward == { Package("BLOCK_16", "broadcast", 0, TRUE, 20),
             Package("BLOCK_16", "broadcast", 0, FALSE, 0),
             Package("BLOCK_16", "broadcast", 0, FALSE, 5),
             Package("none", "short", 0, TRUE, 0),
             Package("BLOCK_16", "short", 5, TRUE, 200),
             Package("BLOCK_16", "group", 5, FALSE, 0),
             Package("BLOCK_16", "group", 9, TRUE, 120),
             Package("BLOCK_16", "group", 8, FALSE, 0),
             Package("BLOCK_16", "group", 1, TRUE, 60),
             Package("BLOCK_16", "special", 0, FALSE, 0) }

\* The answer YES (255) of another unit, with the address of a broadcast.
Answer == Package("BLOCK_8", "broadcast", 0, FALSE, 0)

ForwardOnly   == Forward \ {Package("none", "short", 0, TRUE, 0)}
WithAnswers   == ForwardOnly \cup {Answer}
AllPackages   == Forward \cup {Answer}

\* A unit with an address and two groups, one without either; both return to
\* their last level.
Given == { [actual |-> 100, power_on |-> 255, min |-> 35, max |-> 150,
            short |-> 5, groups |-> {8, 9}],
           [actual |-> 100, power_on |-> 255, min |-> 35, max |-> 150,
            short |-> 255, groups |-> {}] }

-----------------------------------------------------------------------------
\* The reference for the pattern match: how far into the string the first i
\* characters of the pattern may reach, found by moving a set of places.
Reach(pattern, string) ==
    LET reach[i \in 0..Len(pattern)] ==
          IF i = 0 THEN {0}
          ELSE LET c == pattern[i] IN
               IF c = Star THEN {n \in 0..Len(string) : \E o \in reach[i - 1] : o <= n}
               ELSE {n \in 1..Len(string) : /\ n - 1 \in reach[i - 1]
                                            /\ c = Query \/ c = string[n]}
    IN  reach[Len(pattern)]

Words(letters, n) == UNION {[1..m -> letters] : m \in 0..n}

\* Without brackets fnmatch is the usual match of file names ...
ASSUME MatchIsReference ==
    \A p \in Words({97, Dot, Star, Query}, 4), s \in Words({97, Dot}, 4) :
        fnmatch(p, s, {}) <=> Len(s) \in Reach(p, s)

\* ... in which FNM_PERIOD wants a leading period written out.
ASSUME PeriodIsReference ==
    \A p \in Words({97, Dot, Star, Query}, 3), s \in Words({97, Dot}, 4) :
        fnmatch(p, s, {"FNM_PERIOD"})
            <=> /\ Len(s) \in Reach(p, s)
                /\ At(s, 1) = Dot => At(p, 1) = Dot

\* With FNM_PATHNAME the parts of a path match the parts of the pattern.
ASSUME PathIsReference ==
    \A p, q \in Words({97, Star, Query}, 2), s, t \in Words({97}, 2) :
        fnmatch(p \o <<Slash>> \o q, s \o <<Slash>> \o t, {"FNM_PATHNAME"})
            <=> Len(s) \in Reach(p, s) /\ Len(t) \in Reach(q, t)

\* A bracket expression is the set of its characters, or what is not in it.
ASSUME BracketIsReference ==
    \A x, y, z, test \in 97..100, n \in {<<>>, <<33>>, <<94>>} :
        fnmatch(<<Open>> \o n \o <<x, Dash, y, z, Close>>, <<test>>, {})
            <=> (test \in (x..y) \cup {z}) = (n = <<>>)
=============================================================================
