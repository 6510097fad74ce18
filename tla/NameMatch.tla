----------------------------- MODULE NameMatch ------------------------------
(***************************************************************************)
(* The pattern match of main/comp/storage.cpp by which Storage::list       *)
(* selects what it shows: fnmatch and rangematch over sequences of ASCII   *)
(* codes.  Each is a function of the place it has reached, as the code     *)
(* walks with two pointers.  FNM_CASEFOLD and FNM_PREFIX_DIRS are left     *)
(* out: list asks for FNM_PERIOD and nothing else.                         *)
(***************************************************************************)
EXTENDS Integers, Sequences

EOS   == 0
Star  == 42
Query == 63
Open  == 91
Close == 93
Dash  == 45
Escape == 92
Slash == 47
Dot   == 46
Negations == {33, 94}     \* ! and ^

At(s, i) == IF i \in 1..Len(s) THEN s[i] ELSE EOS

\* A quoted character of a bracket expression stands for itself.
Unquoted(pattern, i, flags) ==
    IF At(pattern, i) = Escape /\ "FNM_NOESCAPE" \notin flags THEN i + 1 ELSE i

\* The place after the bracket expression that begins behind i if it matches
\* test, 0 (NULL) if it does not, or does not end.
rangematch(pattern, i, test, flags) ==
    LET negate == At(pattern, i) \in Negations
        InRange(k) ==       \* at k is a range: its last character, else 0
            IF At(pattern, k + 1) = Dash /\ At(pattern, k + 2) \notin {EOS, Close}
            THEN Unquoted(pattern, k + 2, flags) ELSE 0
        walk[at \in 1..(Len(pattern) + 2), ok \in BOOLEAN] ==
            LET k == Unquoted(pattern, at, flags)
                c == At(pattern, k)
                last == InRange(k)
            IN  IF At(pattern, at) = Close THEN IF ok = negate THEN 0 ELSE at + 1
                ELSE IF c = EOS \/ (last # 0 /\ At(pattern, last) = EOS) THEN 0
                ELSE IF last # 0
                     THEN walk[last + 1, ok \/ (c <= test /\ test <= At(pattern, last))]
                     ELSE walk[k + 1, ok \/ c = test]
    IN  walk[IF negate THEN i + 1 ELSE i, FALSE]

\* A leading period has to be matched by one.
Hidden(string, j, flags, period) ==
    /\ period /\ At(string, j) = Dot
    /\ j = 1 \/ ("FNM_PATHNAME" \in flags /\ At(string, j - 1) = Slash)

\* Behind the stars at i.
Behind(pattern, i) ==
    CHOOSE k \in i..(Len(pattern) + 1) :
        /\ At(pattern, k) # Star
        /\ \A n \in i..(k - 1) : At(pattern, n) = Star

\* What the character of the pattern at i makes of the string at j; match is
\* what comes of the places behind.
MatchAt(pattern, string, flags, match, i, j, period) ==
    LET P == "FNM_PATHNAME" \in flags
        L == "FNM_LEADING_DIR" \in flags
        c == At(pattern, i)
        next == Behind(pattern, i)
        Slashes == {n \in j..Len(string) : string[n] = Slash}
    IN  \/ c = EOS /\ (At(string, j) = EOS \/ (L /\ At(string, j) = Slash))
        \/ /\ c = Query
           /\ At(string, j) # EOS
           /\ ~(P /\ string[j] = Slash) /\ ~Hidden(string, j, flags, period)
           /\ match[i + 1][j + 1][period]
        \/ /\ c = Star
           /\ ~Hidden(string, j, flags, period)
           /\ IF At(pattern, next) = EOS THEN ~P \/ L \/ Slashes = {}
              ELSE IF P /\ At(pattern, next) = Slash
              THEN \E n \in Slashes :
                      /\ \A o \in Slashes : n <= o
                      /\ match[next][n][period]
              ELSE \E n \in j..Len(string) :
                      /\ P => Slashes \cap (j..(n - 1)) = {}
                      /\ match[next][n][FALSE]
        \/ /\ c = Open
           /\ At(string, j) # EOS /\ ~(P /\ string[j] = Slash)
           /\ LET k == rangematch(pattern, i + 1, At(string, j), flags)
              IN  k # 0 /\ match[k][j + 1][period]
        \/ /\ c = Escape        \* its break leaves the string where it is
           /\ match[IF "FNM_NOESCAPE" \in flags \/ At(pattern, i + 1) = EOS
                    THEN i + 1 ELSE i + 2][j][period]
        \/ /\ c \notin {EOS, Query, Star, Open, Escape}
           /\ At(string, j) = c /\ match[i + 1][j + 1][period]

\* fnmatch returns 0.
fnmatch(pattern, string, flags) ==
    LET match[i \in 1..(Len(pattern) + 2)] ==
            [j \in 1..(Len(string) + 1) |->
                [period \in BOOLEAN |->
                    MatchAt(pattern, string, flags, match, i, j, period)]]
    IN  match[1][1]["FNM_PERIOD" \in flags]
=============================================================================
