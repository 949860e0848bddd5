----------------------------- MODULE ArgvProofs -----------------------------
(***************************************************************************)
(* Theorems about Argv.  They are about lines and lists of arguments of    *)
(* any length, among which are those with which TLC begins.                *)
(*   - The reader stays on the line and counts backslashes rightly.        *)
(*   - MeansWhatWasMeant: where each character of an argument stands in    *)
(*     its quoted form (Written, Extra), and what the reader has made of   *)
(*     the form when it has read so far (Inside).                          *)
(*   - LettersKept: OnlyLetters of two sequences written together.         *)
(*   - WordsWithoutQuotes: the places where the words so far began.        *)
(***************************************************************************)
EXTENDS Argv, FlattenProofs

AnyLine == line \in Seq(Characters) /\ Begins /\ [][Next]_vars

Typed == line \in Seq(Characters) /\ TypeOK

(* Between arguments, the run of backslashes before is not one's own.      *)
Before == pc = "between" => ~Left \/ at = 1 \/ line[at - 1] = Blank

LEMMA SlashesTyped ==
    ASSUME NEW n \in Nat PROVE Slashes(n) \in Seq(Characters)
PROOF BY DEF Slashes, Characters

LEMMA Halved == ASSUME NEW n \in Nat PROVE n \div 2 \in Nat
PROOF OBVIOUS

LEMMA StepTypes == Typed /\ [Next]_vars => Typed'
PROOF
<1> SUFFICES ASSUME Typed, [Next]_vars PROVE Typed'
    OBVIOUS
<1> USE DEF Typed, TypeOK, Left, Next1, Shift
<1>1. Slashes(nslash) \in Seq(Characters) /\ Slashes(nslash \div 2) \in Seq(Characters)
      BY SlashesTyped, Halved
<1>2. Quote \in Characters
      BY DEF Characters
<1>3. CASE SkipBlank \/ BeginArg \/ Return \/ ReadBackslash
  <2>1. b' \in {b, <<>>} /\ args' = args /\ line' = line
        BY <1>3 DEF SkipBlank, BeginArg, Return, ReadBackslash
  <2>2. at' \in 1 .. Len(line) + 1
        BY <1>3 DEF SkipBlank, BeginArg, Return, ReadBackslash
  <2>3. pc' \in {"between", "within", "returned"} /\ nslash' \in Nat
        BY <1>3 DEF SkipBlank, BeginArg, Return, ReadBackslash
  <2>4. inquote' \in BOOLEAN
        BY <1>3 DEF SkipBlank, BeginArg, Return, ReadBackslash
  <2>5. b' \in Seq(Characters)
        BY <2>1, EmptySeq
  <2>6. QED
        BY <2>1, <2>2, <2>3, <2>4, <2>5
<1>4. CASE EndArg
  <2>1. b \o Slashes(nslash) \in Seq(Characters)
        BY <1>1
  <2>2. args' \in Seq(Seq(Characters))
        BY <1>4, <2>1 DEF EndArg
  <2>3. at' \in 1 .. Len(line) + 1
        BY <1>4 DEF EndArg
  <2>4. QED
        BY <1>4, <2>2, <2>3 DEF EndArg
<1>5. CASE ReadEscapedQuote
  <2>1. b' \in Seq(Characters)
        BY <1>1, <1>2, <1>5 DEF ReadEscapedQuote
  <2>2. QED
        BY <1>5, <2>1 DEF ReadEscapedQuote
<1>6. CASE ReadQuote
  <2>1. b \o Slashes(nslash \div 2) \in Seq(Characters)
        BY <1>1
  <2>2. b' \in Seq(Characters)
        BY <1>2, <1>6, <2>1 DEF ReadQuote
  <2>3. at' \in 1 .. Len(line) + 1
        BY <1>6 DEF ReadQuote, Doubled
  <2>4. inquote' \in BOOLEAN /\ nslash' \in Nat
        BY <1>6 DEF ReadQuote
  <2>5. QED
        BY <1>6, <2>2, <2>3, <2>4 DEF ReadQuote
<1>7. CASE ReadOther
  <2>1. b' \in Seq(Characters)
        BY <1>1, <1>7 DEF ReadOther, Characters
  <2>2. QED
        BY <1>7, <2>1 DEF ReadOther
<1>8. CASE UNCHANGED vars
      BY <1>8 DEF vars
<1>9. QED
      BY <1>3, <1>4, <1>5, <1>6, <1>7, <1>8 DEF Next

LEMMA TypesHold == AnyLine => []Typed
PROOF
<1>1. line \in Seq(Characters) /\ Begins => Typed
  <2>1. ASSUME NEW S PROVE <<>> \in Seq(S)
        BY EmptySeq
  <2>2. SUFFICES ASSUME line \in Seq(Characters), Begins PROVE TypeOK
        BY DEF Typed
  <2>3. args \in Seq(Seq(Characters)) /\ b \in Seq(Characters)
        BY <2>1, <2>2 DEF Begins
  <2>4. Len(line) \in Nat /\ at = 1 /\ nslash = 0
        BY <2>2 DEF Begins
  <2>5. at \in 1 .. Len(line) + 1 /\ nslash \in Nat
        BY <2>4
  <2>6. QED
        BY <2>2, <2>3, <2>5 DEF Begins, TypeOK
<1>2. QED
      BY <1>1, StepTypes, PTL DEF AnyLine

(* TypeOK of Argv: no line, however its quotes and backslashes are placed, *)
(* is read beyond its end.                                                 *)
THEOREM StaysOnTheLine == AnyLine => []TypeOK
PROOF
<1>1. Typed => TypeOK
      BY DEF Typed
<1>2. QED
      BY <1>1, TypesHold, PTL

(* CountsTheRun of Argv: when a quote comes, the whole run of backslashes  *)
(* before it has been counted, and nothing else.                           *)
THEOREM CountIsRight == AnyLine => []CountsTheRun
PROOF
<1>1. line \in Seq(Characters) /\ Begins => CountsTheRun /\ Before
      BY DEF Begins, CountsTheRun, IsRun, Before
<1>2. Typed /\ CountsTheRun /\ Before /\ [Next]_vars => (CountsTheRun /\ Before)'
  <2> SUFFICES ASSUME Typed, CountsTheRun, Before, [Next]_vars
               PROVE (CountsTheRun /\ Before)'
      OBVIOUS
  <2> USE CharactersAssumption DEF Typed, TypeOK, CountsTheRun, IsRun, Before, Left, Next1, Shift
  <2>1. CASE SkipBlank \/ BeginArg \/ Return
        BY <2>1 DEF SkipBlank, BeginArg, Return
  <2>2. CASE EndArg
        BY <2>2 DEF EndArg
  <2>3. CASE ReadBackslash
        BY <2>3 DEF ReadBackslash
  <2>4. CASE ReadEscapedQuote
        BY <2>4 DEF ReadEscapedQuote
  <2>5. CASE ReadQuote
        BY <2>5 DEF ReadQuote, Doubled
  <2>6. CASE ReadOther
        BY <2>6 DEF ReadOther
  <2>7. CASE UNCHANGED vars
        BY <2>7 DEF vars
  <2>8. QED
        BY <2>1, <2>2, <2>3, <2>4, <2>5, <2>6, <2>7 DEF Next
<1>3. QED
      BY <1>1, <1>2, TypesHold, PTL DEF AnyLine

-----------------------------------------------------------------------------
(* Runs of backslashes.                                                    *)
LEMMA OneRun ==
    ASSUME NEW s \in Seq(Characters), NEW i \in 1 .. Len(s) + 1,
           NEW m \in Nat, NEW n \in Nat, IsRun(s, i, m), IsRun(s, i, n)
    PROVE m = n
PROOF
<1>1. ASSUME NEW p \in Nat, NEW q \in Nat, IsRun(s, i, p), IsRun(s, i, q), p < q PROVE FALSE
  <2>1. i - p - 1 \in i - q .. i - 1 /\ i - p # 1
        BY <1>1 DEF IsRun
  <2>2. QED
        BY <1>1, <2>1 DEF IsRun
<1>2. m < n \/ n < m \/ m = n
      OBVIOUS
<1>3. QED
      BY <1>1, <1>2

LEMMA RunGrows ==
    ASSUME NEW s \in Seq(Characters), NEW i \in 1 .. Len(s), NEW n \in Nat, IsRun(s, i, n)
    PROVE IsRun(s, i + 1, IF s[i] = Backslash THEN n + 1 ELSE 0)
PROOF BY DEF IsRun

LEMMA RunIs ==
    ASSUME NEW s \in Seq(Characters), NEW i \in 1 .. Len(s) + 1
    PROVE Run(s, i) \in 0 .. i - 1 /\ IsRun(s, i, Run(s, i))
PROOF
<1> DEFINE HasRun(j) == \E n \in Nat : IsRun(s, j, n)
           T == {j \in 0 .. Len(s) : HasRun(j + 1)}
<1>1. HasRun(1)
      BY DEF IsRun
<1>2. ASSUME NEW j \in 0 .. Len(s) - 1, HasRun(j + 1) PROVE HasRun(j + 2)
      BY <1>2, RunGrows
<1> HIDE DEF HasRun
<1>3. 0 \in T /\ \A j \in 0 .. Len(s) - 1 : j \in T => j + 1 \in T
      BY <1>1, <1>2
<1> HIDE DEF T
<1>4. \A j \in 0 .. Len(s) : j \in T
  <2>1. Len(s) \in Nat
        OBVIOUS
  <2>2. QED
        BY <1>3, <2>1, Induction
<1>5. i - 1 \in T /\ (i - 1) + 1 = i
      BY <1>4
<1>6. PICK n \in Nat : IsRun(s, i, n)
      BY <1>5 DEF T, HasRun
<1>7. n \in 0 .. i - 1
      BY <1>6 DEF IsRun
<1>8. QED
      BY <1>6, <1>7 DEF Run

LEMMA RunStarts ==
    ASSUME NEW s \in Seq(Characters)
    PROVE Run(s, 1) = 0
PROOF BY RunIs

LEMMA RunContinues ==
    ASSUME NEW s \in Seq(Characters), NEW i \in 1 .. Len(s)
    PROVE Run(s, i + 1) = IF s[i] = Backslash THEN Run(s, i) + 1 ELSE 0
PROOF
<1>1. /\ i \in 1 .. Len(s) + 1 /\ i + 1 \in 1 .. Len(s) + 1
      /\ Run(s, i) \in Nat /\ Run(s, i + 1) \in Nat
      /\ IsRun(s, i, Run(s, i)) /\ IsRun(s, i + 1, Run(s, i + 1))
      BY RunIs
<1>2. QED
      BY <1>1, RunGrows, OneRun

-----------------------------------------------------------------------------
(* What is written, and where.                                             *)
LEMMA SlashesAre ==
    ASSUME NEW n \in Nat
    PROVE /\ Slashes(n) \in Seq(Characters) /\ Len(Slashes(n)) = n
          /\ \A i \in 1 .. n : Slashes(n)[i] = Backslash
PROOF BY DEF Slashes, Characters

LEMMA PiecesTyped ==
    ASSUME NEW arg \in Seq(Characters)
    PROVE /\ Pieces(arg) \in Seq(Seq(Characters)) /\ Len(Pieces(arg)) = Len(arg)
          /\ FlattenSeq(Pieces(arg)) \in Seq(Characters)
PROOF
<1>1. ASSUME NEW i \in 1 .. Len(arg)
      PROVE (IF arg[i] = Quote THEN Slashes(Run(arg, i) + 1) \o <<Quote>> ELSE <<arg[i]>>)
              \in Seq(Characters)
  <2>1. Run(arg, i) + 1 \in Nat
        BY RunIs
  <2>2. Slashes(Run(arg, i) + 1) \in Seq(Characters)
        BY <2>1, SlashesAre
  <2>3. Quote \in Characters /\ arg[i] \in Characters
        BY DEF Characters
  <2>4. QED
        BY <2>2, <2>3
<1>2. Pieces(arg) \in Seq(Seq(Characters)) /\ Len(Pieces(arg)) = Len(arg)
      BY <1>1 DEF Pieces
<1>3. QED
      BY <1>2, FlattenTyped

PlacesOf(ss) == CHOOSE p : Places(p, ss)

LEMMA PlacesAre ==
    ASSUME NEW S, NEW ss \in Seq(Seq(S))
    PROVE Places(PlacesOf(ss), ss)
PROOF BY FlattenPlaces DEF PlacesOf

LEMMA Concatenated ==
    ASSUME NEW S, NEW s \in Seq(S), NEW t \in Seq(S), NEW w, w = s \o t
    PROVE /\ w \in Seq(S) /\ Len(w) = Len(s) + Len(t)
          /\ \A i \in 1 .. Len(s) : w[i] = s[i]
          /\ \A i \in 1 .. Len(t) : w[Len(s) + i] = t[i]
PROOF OBVIOUS

LEMMA Surrounded ==
    ASSUME NEW S, NEW c \in S, NEW s \in Seq(S), NEW t \in Seq(S),
           NEW w, w = <<c>> \o s \o t \o <<c>>
    PROVE /\ w \in Seq(S) /\ Len(w) = Len(s) + Len(t) + 2
          /\ w[1] = c /\ w[Len(s) + Len(t) + 2] = c
          /\ \A i \in 1 .. Len(s) : w[1 + i] = s[i]
          /\ \A i \in 1 .. Len(t) : w[1 + Len(s) + i] = t[i]
PROOF
<1> DEFINE u == <<c>> \o s
           v == u \o t
<1>1. Len(s) \in Nat /\ Len(t) \in Nat
      OBVIOUS
<1>2. /\ u \in Seq(S) /\ Len(u) = 1 + Len(s) /\ u[1] = c
      /\ \A i \in 1 .. Len(s) : u[1 + i] = s[i]
      OBVIOUS
<1>0. w = v \o <<c>>
      OBVIOUS
<1> HIDE DEF u
<1>3. /\ v \in Seq(S) /\ Len(v) = Len(u) + Len(t)
      /\ \A i \in 1 .. Len(u) : v[i] = u[i]
      /\ \A i \in 1 .. Len(t) : v[Len(u) + i] = t[i]
  <2>1. u \in Seq(S)
        BY <1>2
  <2>2. QED
        BY <2>1
<1> HIDE DEF v
<1>4. /\ w \in Seq(S) /\ Len(w) = Len(v) + 1 /\ w[Len(v) + 1] = c
      /\ \A i \in 1 .. Len(v) : w[i] = v[i]
      BY <1>0, <1>3
<1>5. w \in Seq(S) /\ Len(w) = Len(s) + Len(t) + 2 /\ w[1] = c /\ w[Len(s) + Len(t) + 2] = c
      BY <1>1, <1>2, <1>3, <1>4
<1>6. ASSUME NEW i \in 1 .. Len(s) PROVE w[1 + i] = s[i]
  <2>1. 1 + i \in 1 .. Len(u) /\ 1 + i \in 1 .. Len(v)
        BY <1>1, <1>2, <1>3
  <2>2. QED
        BY <1>2, <1>3, <1>4, <2>1
<1>7. ASSUME NEW i \in 1 .. Len(t) PROVE w[1 + Len(s) + i] = t[i]
  <2>1. Len(u) + i \in 1 .. Len(v) /\ 1 + Len(s) + i = Len(u) + i
        BY <1>1, <1>2, <1>3
  <2>2. QED
        BY <1>3, <1>4, <2>1
<1>8. QED
      BY <1>5, <1>6, <1>7

LEMMA QuotedForm ==
    ASSUME NEW arg, NEW s \in Seq(Characters), NEW t \in Seq(Characters), Quote \in Characters,
           Quoted(arg) = <<Quote>> \o s \o t \o <<Quote>>
    PROVE /\ Quoted(arg) \in Seq(Characters) /\ Len(Quoted(arg)) = Len(s) + Len(t) + 2
          /\ Quoted(arg)[1] = Quote /\ Quoted(arg)[Len(s) + Len(t) + 2] = Quote
          /\ \A i \in 1 .. Len(s) : Quoted(arg)[1 + i] = s[i]
          /\ \A i \in 1 .. Len(t) : Quoted(arg)[1 + Len(s) + i] = t[i]
PROOF BY Surrounded, SMTT(30)

(* The place in an argument's quoted form where its first j characters end *)
Written(arg, j) == 1 + PlacesOf(Pieces(arg))[j]

LEMMA QuotedIs ==
    ASSUME NEW arg \in Seq(Characters)
    PROVE /\ Quoted(arg) \in Seq(Characters)
          /\ Len(Quoted(arg)) = Written(arg, Len(arg)) + Run(arg, Len(arg) + 1) + 1
          /\ Quoted(arg)[1] = Quote /\ Quoted(arg)[Len(Quoted(arg))] = Quote
          /\ \A t \in 1 .. Run(arg, Len(arg) + 1) :
                Quoted(arg)[Written(arg, Len(arg)) + t] = Backslash
          /\ \A j \in 1 .. Len(arg) :
                \A i \in 1 .. Len(Pieces(arg)[j]) :
                   Quoted(arg)[Written(arg, j - 1) + i] = Pieces(arg)[j][i]
          /\ Written(arg, 0) = 1
          /\ \A j \in 0 .. Len(arg) : Written(arg, j) \in Nat /\ Written(arg, j) <= Written(arg, Len(arg))
          /\ \A j \in 1 .. Len(arg) : Written(arg, j) = Written(arg, j - 1) + Len(Pieces(arg)[j])
PROOF
<1> DEFINE pp == Pieces(arg)
           flat == FlattenSeq(pp)
           p == PlacesOf(pp)
           n == Len(arg)
           r == Run(arg, n + 1)
<1>1. /\ pp \in Seq(Seq(Characters)) /\ Len(pp) = n /\ n \in Nat
      /\ flat \in Seq(Characters) /\ Len(flat) \in Nat
      /\ \A j \in 1 .. n : Len(pp[j]) \in Nat
      BY PiecesTyped
<1>2. /\ p \in [0 .. n -> Nat] /\ p[0] = 0 /\ p[n] = Len(flat)
      /\ \A j \in 1 .. n : p[j] = p[j - 1] + Len(pp[j]) /\ p[j] <= p[n]
      /\ \A j \in 1 .. n : \A i \in 1 .. Len(pp[j]) : flat[p[j - 1] + i] = pp[j][i]
      BY <1>1, PlacesAre DEF Places
<1>3. r \in Nat /\ Slashes(r) \in Seq(Characters) /\ Len(Slashes(r)) = r
      /\ \A i \in 1 .. r : Slashes(r)[i] = Backslash
  <2>1. n + 1 \in 1 .. n + 1
        BY <1>1
  <2>2. r \in Nat
        BY <2>1, RunIs
  <2>3. QED
        BY <2>2, SlashesAre
<1>4. Quote \in Characters
      BY DEF Characters
<1>5. Quoted(arg) = <<Quote>> \o flat \o Slashes(r) \o <<Quote>>
      BY DEF Quoted
<1> HIDE DEF pp, flat, p, n, r
<1>6. /\ Quoted(arg) \in Seq(Characters) /\ Len(Quoted(arg)) = Len(flat) + r + 2
      /\ Quoted(arg)[1] = Quote /\ Quoted(arg)[Len(flat) + r + 2] = Quote
      /\ \A i \in 1 .. Len(flat) : Quoted(arg)[1 + i] = flat[i]
      /\ \A t \in 1 .. r : Quoted(arg)[1 + Len(flat) + t] = Backslash
  <2>1. /\ Quoted(arg) \in Seq(Characters)
        /\ Len(Quoted(arg)) = Len(flat) + Len(Slashes(r)) + 2
        /\ Quoted(arg)[1] = Quote /\ Quoted(arg)[Len(flat) + Len(Slashes(r)) + 2] = Quote
        /\ \A i \in 1 .. Len(flat) : Quoted(arg)[1 + i] = flat[i]
        /\ \A t \in 1 .. Len(Slashes(r)) : Quoted(arg)[1 + Len(flat) + t] = Slashes(r)[t]
    <3>1. flat \in Seq(Characters) /\ Slashes(r) \in Seq(Characters) /\ Quote \in Characters
          BY <1>1, <1>3, <1>4
    <3>2. QED
          BY <3>1, <1>5, QuotedForm
  <2>2. QED
        BY <1>3, <2>1
<1>7. \A j \in 0 .. n : Written(arg, j) = 1 + p[j] /\ p[j] \in Nat
      BY <1>1, <1>2 DEF Written, p, pp
<1>8. Written(arg, n) = 1 + Len(flat) /\ Written(arg, 0) = 1
      BY <1>1, <1>2, <1>7
<1>9. ASSUME NEW j \in 1 .. n
      PROVE /\ Written(arg, j) = Written(arg, j - 1) + Len(pp[j])
            /\ \A i \in 1 .. Len(pp[j]) : Quoted(arg)[Written(arg, j - 1) + i] = pp[j][i]
  <2>1. j \in 0 .. n /\ j - 1 \in 0 .. n
        BY <1>1
  <2>2. /\ p[j - 1] \in Nat /\ Len(pp[j]) \in Nat /\ Len(flat) \in Nat /\ p[j] = p[j - 1] + Len(pp[j]) /\ p[j] <= Len(flat)
        /\ Written(arg, j) = 1 + p[j] /\ Written(arg, j - 1) = 1 + p[j - 1]
        BY <1>1, <1>2, <1>7, <2>1
  <2>3. ASSUME NEW i \in 1 .. Len(pp[j])
        PROVE Quoted(arg)[Written(arg, j - 1) + i] = pp[j][i]
    <3>1. p[j - 1] \in Nat /\ Len(pp[j]) \in Nat /\ Len(flat) \in Nat
          BY <2>2
    <3>2. p[j - 1] + Len(pp[j]) <= Len(flat)
          BY <2>2
    <3>3. p[j - 1] + i \in 1 .. Len(flat)
          BY <3>1, <3>2, Within
    <3>4. (1 + p[j - 1]) + i = 1 + (p[j - 1] + i)
          BY <3>1
    <3>5. flat[p[j - 1] + i] = pp[j][i]
          BY <1>2
    <3>6. Quoted(arg)[1 + (p[j - 1] + i)] = flat[p[j - 1] + i]
          BY <1>6, <3>3
    <3>7. QED
          BY <2>2, <3>4, <3>5, <3>6
  <2>4. Written(arg, j) = Written(arg, j - 1) + Len(pp[j])
        BY <2>2
  <2>5. QED
        BY <2>3, <2>4
<1>10. ASSUME NEW j \in 0 .. n PROVE Written(arg, j) \in Nat /\ Written(arg, j) <= Written(arg, n)
  <2>1. j = 0 \/ j \in 1 .. n
        BY <1>1
  <2>2. p[j] \in Nat /\ p[j] <= p[n]
        BY <1>1, <1>2, <1>7, <2>1
  <2>3. QED
        BY <1>2, <1>7, <1>8, <2>2
<1>11. QED
  <2>1. Len(Quoted(arg)) = Written(arg, n) + r + 1
        BY <1>1, <1>3, <1>6, <1>8
  <2>2. Quoted(arg)[Len(Quoted(arg))] = Quote
        BY <1>6
  <2>3. \A t \in 1 .. r : Quoted(arg)[Written(arg, n) + t] = Backslash
        BY <1>3, <1>6, <1>8
  <2>4. QED
        BY <1>6, <1>8, <1>9, <1>10, <2>1, <2>2, <2>3 DEF pp, n, r

(* How many backslashes come before what stands for the next character, or *)
(* for the end: the escape of a quote, and the run that is doubled.        *)
Extra(arg, j) ==
    IF j = Len(arg) THEN Run(arg, j + 1)
    ELSE IF arg[j + 1] = Quote THEN Run(arg, j + 1) + 1 ELSE 0

LEMMA WrittenNext ==
    ASSUME NEW arg \in Seq(Characters), NEW j \in 0 .. Len(arg)
    PROVE /\ Extra(arg, j) \in Nat /\ Run(arg, j + 1) \in 0 .. j /\ Written(arg, j) \in Nat
          /\ j # Len(arg) => Written(arg, j + 1) = Written(arg, j) + 1 + Extra(arg, j)
          /\ Written(arg, j) + 1 + Extra(arg, j) <= Len(Quoted(arg))
          /\ j = Len(arg) => Len(Quoted(arg)) = Written(arg, j) + 1 + Extra(arg, j)
PROOF
<1>1. j + 1 \in 1 .. Len(arg) + 1 /\ (j + 1) - 1 = j /\ Len(arg) \in Nat
      OBVIOUS
<1>2. Run(arg, j + 1) \in 0 .. j
      BY <1>1, RunIs
<1>3. Extra(arg, j) \in Nat
      BY <1>2 DEF Extra
<1>4. /\ Written(arg, j) \in Nat
      /\ Len(Quoted(arg)) = Written(arg, Len(arg)) + Run(arg, Len(arg) + 1) + 1
      BY QuotedIs
<1>5. CASE j = Len(arg)
      BY <1>1, <1>2, <1>3, <1>4, <1>5 DEF Extra
<1>6. CASE j # Len(arg)
  <2>1. j + 1 \in 1 .. Len(arg) /\ j + 1 \in 0 .. Len(arg) /\ Len(arg) + 1 \in 1 .. Len(arg) + 1
        BY <1>1, <1>6
  <2>2. Len(Pieces(arg)[j + 1]) = 1 + Extra(arg, j)
    <3>1. CASE arg[j + 1] = Quote
      <4>1. Pieces(arg)[j + 1] = Slashes(Run(arg, j + 1) + 1) \o <<Quote>>
            BY <2>1, <3>1 DEF Pieces
      <4>2. Run(arg, j + 1) + 1 \in Nat
            BY <1>2
      <4>3. /\ Slashes(Run(arg, j + 1) + 1) \in Seq(Characters)
            /\ Len(Slashes(Run(arg, j + 1) + 1)) = Run(arg, j + 1) + 1
            BY <4>2, SlashesAre
      <4>4. QED
            BY <1>1, <1>2, <1>6, <3>1, <4>1, <4>3 DEF Extra
    <3>2. CASE arg[j + 1] # Quote
          BY <1>6, <2>1, <3>2 DEF Pieces, Extra
    <3>3. QED
          BY <3>1, <3>2
  <2>3. Written(arg, j + 1) = Written(arg, j) + 1 + Extra(arg, j)
    <3>1. Written(arg, j + 1) = Written(arg, (j + 1) - 1) + Len(Pieces(arg)[j + 1])
          BY <2>1, QuotedIs
    <3>2. QED
          BY <1>1, <1>3, <1>4, <2>2, <3>1
  <2>4. Written(arg, j + 1) <= Written(arg, Len(arg)) /\ Written(arg, Len(arg)) \in Nat
        BY <1>1, <2>1, QuotedIs
  <2>5. Run(arg, Len(arg) + 1) \in Nat
        BY <2>1, RunIs
  <2>6. QED
        BY <1>2, <1>3, <1>4, <1>6, <2>3, <2>4, <2>5
<1>7. QED
      BY <1>5, <1>6

LEMMA QuotedOpens ==
    ASSUME NEW arg \in Seq(Characters)
    PROVE Quoted(arg)[1] = Quote /\ 1 \in 1 .. Len(Quoted(arg))
PROOF
<1>1. Quoted(arg)[1] = Quote
      BY QuotedIs
<1>2. /\ Len(arg) \in 0 .. Len(arg) /\ Len(Quoted(arg)) \in Nat
      /\ Quoted(arg) \in Seq(Characters)
      BY QuotedIs
<1>3. /\ Written(arg, Len(arg)) \in Nat /\ Extra(arg, Len(arg)) \in Nat
      /\ Len(Quoted(arg)) = Written(arg, Len(arg)) + 1 + Extra(arg, Len(arg))
      BY <1>2, WrittenNext
<1>4. QED
      BY <1>1, <1>2, <1>3

LEMMA WrittenThere ==
    ASSUME NEW arg \in Seq(Characters), NEW j \in 0 .. Len(arg), NEW t \in 0 .. Extra(arg, j)
    PROVE Quoted(arg)[Written(arg, j) + 1 + t] =
             IF t < Extra(arg, j) THEN Backslash
             ELSE IF j = Len(arg) THEN Quote ELSE arg[j + 1]
PROOF
<1>1. Extra(arg, j) \in Nat /\ Run(arg, j + 1) \in 0 .. j /\ Written(arg, j) \in Nat /\ Len(arg) \in Nat
      BY WrittenNext
<1>2. Written(arg, j) + 1 + t = Written(arg, j) + (t + 1)
      BY <1>1
<1>3. CASE j = Len(arg)
  <2>1. Len(Quoted(arg)) = Written(arg, j) + 1 + Extra(arg, j)
        BY <1>3, WrittenNext
  <2>2. \A i \in 1 .. Extra(arg, j) : Quoted(arg)[Written(arg, j) + i] = Backslash
        BY <1>3, QuotedIs DEF Extra
  <2>3. Quoted(arg)[Len(Quoted(arg))] = Quote
        BY QuotedIs
  <2>4. CASE t < Extra(arg, j)
    <3>1. t + 1 \in 1 .. Extra(arg, j)
          BY <1>1, <2>4
    <3>2. QED
          BY <1>2, <2>2, <2>4, <3>1
  <2>5. CASE ~(t < Extra(arg, j))
    <3>1. t = Extra(arg, j)
          BY <1>1, <2>5
    <3>2. QED
          BY <1>3, <2>1, <2>3, <2>5, <3>1
  <2>6. QED
        BY <2>4, <2>5
<1>4. CASE j # Len(arg)
  <2>1. j + 1 \in 1 .. Len(arg) /\ (j + 1) - 1 = j
        BY <1>1, <1>4
  <2> DEFINE piece == Pieces(arg)[j + 1]
  <2>2. \A i \in 1 .. Len(piece) : Quoted(arg)[Written(arg, j) + i] = piece[i]
    <3>1. \A k \in 1 .. Len(arg) : \A i \in 1 .. Len(Pieces(arg)[k]) :
             Quoted(arg)[Written(arg, k - 1) + i] = Pieces(arg)[k][i]
          BY QuotedIs
    <3>2. QED
          BY <2>1, <3>1
  <2>3. CASE arg[j + 1] = Quote
    <3> DEFINE r == Run(arg, j + 1)
    <3>1. piece = Slashes(r + 1) \o <<Quote>> /\ r + 1 \in Nat /\ Extra(arg, j) = r + 1
          BY <1>1, <1>4, <2>1, <2>3 DEF Pieces, Extra
    <3>2. /\ Slashes(r + 1) \in Seq(Characters) /\ Len(Slashes(r + 1)) = r + 1
          /\ \A i \in 1 .. r + 1 : Slashes(r + 1)[i] = Backslash
          BY <3>1, SlashesAre
    <3> HIDE DEF r
    <3> HIDE DEF piece
    <3>3. /\ Len(piece) = (r + 1) + 1 /\ piece[(r + 1) + 1] = Quote
          /\ \A i \in 1 .. r + 1 : piece[i] = Backslash
      <4>1. Quote \in Characters
            BY DEF Characters
      <4>2. /\ Len(piece) = Len(Slashes(r + 1)) + Len(<<Quote>>)
            /\ \A i \in 1 .. Len(Slashes(r + 1)) : piece[i] = Slashes(r + 1)[i]
            /\ \A i \in 1 .. Len(<<Quote>>) : piece[Len(Slashes(r + 1)) + i] = <<Quote>>[i]
            BY <3>1, <3>2, <4>1, Concatenated
      <4>3. Len(<<Quote>>) = 1 /\ <<Quote>>[1] = Quote /\ 1 \in 1 .. 1
            OBVIOUS
      <4>4. QED
            BY <3>1, <3>2, <4>2, <4>3
    <3>4. t + 1 \in 1 .. Len(piece) /\ (IF t < r + 1 THEN t + 1 \in 1 .. r + 1 ELSE t + 1 = (r + 1) + 1)
          BY <1>1, <3>1, <3>3
    <3>5. QED
          BY <1>2, <1>4, <2>2, <2>3, <3>1, <3>3, <3>4
  <2>4. CASE arg[j + 1] # Quote
    <3>1. piece = <<arg[j + 1]>> /\ Extra(arg, j) = 0 /\ t = 0
          BY <1>1, <1>4, <2>1, <2>4 DEF Pieces, Extra
    <3>2. QED
          BY <1>1, <1>4, <2>2, <3>1
  <2>5. QED
        BY <2>3, <2>4
<1>5. QED
      BY <1>3, <1>4

(* What a run stands for, when it turns out to be backslashes.             *)
LEMMA RunRestored ==
    ASSUME NEW arg \in Seq(Characters), NEW j \in 0 .. Len(arg)
    PROVE SubSeq(arg, 1, j - Run(arg, j + 1)) \o Slashes(Run(arg, j + 1)) = SubSeq(arg, 1, j)
PROOF
<1> DEFINE r == Run(arg, j + 1)
<1>1. r \in 0 .. j /\ \A i \in j + 1 - r .. j : arg[i] = Backslash
  <2>1. j + 1 \in 1 .. Len(arg) + 1 /\ (j + 1) - 1 = j
        OBVIOUS
  <2>2. QED
        BY <2>1, RunIs DEF IsRun
<1>2. r \in Nat
      BY <1>1
<1>3. /\ Slashes(r) \in Seq(Characters) /\ Len(Slashes(r)) = r
      /\ \A i \in 1 .. r : Slashes(r)[i] = Backslash
      BY <1>2, SlashesAre
<1> HIDE DEF r
<1>4. /\ SubSeq(arg, 1, j - r) \in Seq(Characters) /\ Len(SubSeq(arg, 1, j - r)) = j - r
      /\ \A i \in 1 .. j - r : SubSeq(arg, 1, j - r)[i] = arg[i]
      BY <1>1
<1>5. /\ SubSeq(arg, 1, j) \in Seq(Characters) /\ Len(SubSeq(arg, 1, j)) = j
      /\ \A i \in 1 .. j : SubSeq(arg, 1, j)[i] = arg[i]
      OBVIOUS
<1> DEFINE left == SubSeq(arg, 1, j - r)
           s == left \o Slashes(r)
<1>0. s = left \o Slashes(r)
      OBVIOUS
<1> HIDE DEF s
<1>6. /\ s \in Seq(Characters) /\ Len(s) = j
      /\ \A i \in 1 .. j - r : s[i] = left[i]
      /\ \A i \in 1 .. r : s[(j - r) + i] = Slashes(r)[i]
  <2>1. left \in Seq(Characters) /\ Slashes(r) \in Seq(Characters)
        BY <1>3, <1>4
  <2> HIDE DEF left
  <2>2. /\ s \in Seq(Characters) /\ Len(s) = Len(left) + Len(Slashes(r))
        /\ \A i \in 1 .. Len(left) : s[i] = left[i]
        /\ \A i \in 1 .. Len(Slashes(r)) : s[Len(left) + i] = Slashes(r)[i]
        BY <1>0, <2>1, Concatenated
  <2>3. QED
        BY <1>1, <1>3, <1>4, <2>2 DEF left
<1>7. ASSUME NEW i \in 1 .. j PROVE s[i] = arg[i]
  <2>1. CASE i \in 1 .. j - r
        BY <1>4, <1>6, <2>1
  <2>2. CASE i \notin 1 .. j - r
    <3>1. PICK k \in 1 .. r : i = (j - r) + k
      <4>1. i - (j - r) \in 1 .. r /\ i = (j - r) + (i - (j - r))
            BY <1>1, <2>2
      <4>2. QED
            BY <4>1
    <3>2. i \in j + 1 - r .. j
          BY <1>1, <2>2
    <3>3. s[i] = Backslash
          BY <1>3, <1>6, <3>1
    <3>4. QED
          BY <1>1, <3>2, <3>3
  <2>3. QED
        BY <2>1, <2>2
<1>8. s = SubSeq(arg, 1, j)
      BY <1>5, <1>6, <1>7, SeqEqual
<1>9. QED
      BY <1>8 DEF s, r

-----------------------------------------------------------------------------
(* Where the reader is in an argument, whose quoted form it has read up to *)
(* place o: before it opens, after its first j characters and t of what    *)
(* comes before the next, or after it has closed.                          *)
Inside(arg, o, j, t) ==
    /\ inquote
    /\ o = Written(arg, j) + 1 + t /\ t <= Extra(arg, j)
    /\ nslash = Run(arg, j + 1) + t
    /\ b = SubSeq(arg, 1, j - Run(arg, j + 1))

Opening(o) == o = 1 /\ b = <<>> /\ nslash = 0 /\ ~inquote
Closed(arg, o) == o = Len(Quoted(arg)) + 1 /\ b = arg /\ nslash = 0 /\ ~inquote

Reads(arg, o) ==
    \/ Opening(o) \/ Closed(arg, o)
    \/ \E j \in 0 .. Len(arg), t \in Nat : Inside(arg, o, j, t)

(* What stands at the reader's place.                                      *)
Faces(arg, o) ==
    /\ Left
    /\ o \in 1 .. Len(Quoted(arg)) => line[at] = Quoted(arg)[o]
    /\ o = Len(Quoted(arg)) => line[at + 1] = Blank
    /\ o = Len(Quoted(arg)) + 1 => line[at] = Blank

LEMMA Which ==
    ASSUME pc = "within", Left, inquote, Next
    PROVE /\ Next1 = Backslash => ReadBackslash
          /\ Next1 = Quote /\ nslash % 2 = 0 => ReadQuote
          /\ Next1 = Quote /\ nslash % 2 = 1 => ReadEscapedQuote
          /\ Next1 \notin {Quote, Backslash} => ReadOther
PROOF
<1>1. ReadBackslash \/ ReadEscapedQuote \/ ReadQuote \/ ReadOther
      BY DEF Next, SkipBlank, BeginArg, Return, EndArg
<1>2. /\ ReadBackslash => Next1 = Backslash
      /\ ReadEscapedQuote => Next1 = Quote /\ nslash % 2 = 1
      /\ ReadQuote => Next1 = Quote /\ nslash % 2 = 0
      /\ ReadOther => Next1 # Quote /\ Next1 # Backslash
      BY CharactersAssumption DEF ReadBackslash, ReadEscapedQuote, ReadQuote, ReadOther
<1>3. Quote # Backslash
      BY CharactersAssumption
<1>4. ASSUME nslash % 2 = 0, nslash % 2 = 1 PROVE FALSE
      BY <1>4
<1>5. QED
      BY <1>1, <1>2, <1>3, <1>4

LEMMA EvenAndOdd ==
    ASSUME NEW r \in Nat
    PROVE /\ (2 * r) % 2 = 0 /\ (2 * r) \div 2 = r
          /\ (2 * r + 1) % 2 = 1 /\ (2 * r + 1) \div 2 = r
PROOF OBVIOUS

LEMMA Opens ==
    ASSUME Typed, NEW arg \in Seq(Characters), NEW o, Opening(o), Faces(arg, o),
           pc = "within", Next
    PROVE /\ UNCHANGED <<line, meant, pc, args>> /\ at' = at + 1
          /\ Inside(arg, o + 1, 0, 0)'
PROOF
<1>1. 1 \in 1 .. Len(Quoted(arg)) /\ Quoted(arg)[1] = Quote
      BY QuotedOpens
<1>2. Next1 = Quote /\ nslash = 0 /\ nslash % 2 = 0
      BY <1>1 DEF Opening, Faces, Next1
<1>3. ReadQuote /\ ~Doubled
      BY <1>2, CharactersAssumption
      DEF Opening, Next, SkipBlank, BeginArg, Return, EndArg, ReadBackslash, ReadEscapedQuote,
          ReadOther, Doubled, Faces
<1>4. /\ UNCHANGED <<line, meant, pc, args>> /\ at' = at + 1 /\ nslash' = 0 /\ inquote' = ~inquote
      /\ b' = b \o Slashes(nslash \div 2) \o <<>>
      BY <1>3 DEF ReadQuote, Shift
<1>5. b' = <<>>
  <2>1. Slashes(0) = <<>> /\ 0 \div 2 = 0
        BY SlashesAre
  <2>2. QED
        BY <1>2, <1>4, <2>1 DEF Opening
<1>6. /\ 0 \in 0 .. Len(arg) /\ Written(arg, 0) = 1 /\ Run(arg, 1) = 0 /\ SubSeq(arg, 1, 0) = <<>>
      /\ 0 <= Extra(arg, 0)
  <2>1. 0 \in 0 .. Len(arg)
        OBVIOUS
  <2>2. Extra(arg, 0) \in Nat
        BY <2>1, WrittenNext
  <2>3. QED
        BY <2>1, <2>2, QuotedIs, RunStarts
<1>7. inquote'
      BY <1>4 DEF Opening
<1>8. /\ o + 1 = Written(arg, 0) + 1 + 0 /\ nslash' = Run(arg, 0 + 1) + 0
      /\ b' = SubSeq(arg, 1, 0 - Run(arg, 0 + 1))
  <2>1. Run(arg, 0 + 1) = 0
        BY <1>6
  <2>2. o = 1
        BY DEF Opening
  <2>3. o + 1 = Written(arg, 0) + 1 + 0
        BY <1>6, <2>2
  <2>4. nslash' = Run(arg, 0 + 1) + 0
        BY <1>4, <2>1
  <2>5. b' = SubSeq(arg, 1, 0 - Run(arg, 0 + 1))
        BY <1>5, <1>6, <2>1
  <2>6. QED
        BY <2>3, <2>4, <2>5
<1>9. QED
      BY <1>4, <1>6, <1>7, <1>8 DEF Inside

LEMMA Closes ==
    ASSUME Typed, NEW arg \in Seq(Characters), NEW o, Closed(arg, o), Faces(arg, o),
           pc = "within", Next
    PROVE /\ UNCHANGED <<line, meant>> /\ at' = at + 1
          /\ pc' = "between" /\ args' = Append(args, arg)
PROOF
<1>1. Next1 = Blank /\ Left
      BY DEF Closed, Faces, Next1
<1>2. EndArg
      BY <1>1, CharactersAssumption
      DEF Closed, Next, SkipBlank, BeginArg, Return, ReadBackslash, ReadEscapedQuote, ReadQuote,
          ReadOther
<1>3. b \o Slashes(nslash) = arg
  <2>1. Slashes(0) = <<>>
        BY SlashesAre
  <2>2. QED
        BY <2>1 DEF Closed
<1>4. QED
      BY <1>1, <1>2, <1>3 DEF EndArg, Shift

LEMMA ReadsOn ==
    ASSUME Typed, NEW arg \in Seq(Characters), NEW j \in 0 .. Len(arg), NEW t \in Nat, NEW o,
           Inside(arg, o, j, t), Faces(arg, o), pc = "within", Next
    PROVE /\ UNCHANGED <<line, meant, pc, args>> /\ at' = at + 1
          /\ Reads(arg, o + 1)'
PROOF
<1> DEFINE r == Run(arg, j + 1)
<1>1. /\ Extra(arg, j) \in Nat /\ r \in 0 .. j /\ Written(arg, j) \in Nat /\ Len(arg) \in Nat
      /\ j # Len(arg) => Written(arg, j + 1) = Written(arg, j) + 1 + Extra(arg, j)
      /\ Written(arg, j) + 1 + Extra(arg, j) <= Len(Quoted(arg))
      /\ j = Len(arg) => Len(Quoted(arg)) = Written(arg, j) + 1 + Extra(arg, j)
      BY WrittenNext
<1>2. t \in 0 .. Extra(arg, j) /\ o \in 1 .. Len(Quoted(arg))
  <2>1. Len(Quoted(arg)) \in Nat
        BY QuotedIs
  <2>2. o = Written(arg, j) + 1 + t /\ t <= Extra(arg, j)
        BY DEF Inside
  <2>3. QED
        BY <1>1, <2>1, <2>2
<1>3. Next1 = IF t < Extra(arg, j) THEN Backslash ELSE IF j = Len(arg) THEN Quote ELSE arg[j + 1]
      BY <1>2, WrittenThere DEF Inside, Faces, Next1
<1>4. /\ Left /\ inquote /\ nslash = r + t /\ b = SubSeq(arg, 1, j - r)
      /\ o = Written(arg, j) + 1 + t
      BY DEF Inside, Faces
<1>5. b \o Slashes(r) = SubSeq(arg, 1, j)
      BY <1>4, RunRestored
<1>6. CASE t < Extra(arg, j)
  <2>1. ReadBackslash
        BY <1>3, <1>4, <1>6, Which
  <2>2. /\ UNCHANGED <<line, meant, pc, args, b, inquote>> /\ at' = at + 1 /\ nslash' = nslash + 1
        BY <2>1 DEF ReadBackslash, Shift
  <2>3. Inside(arg, o + 1, j, t + 1)'
    <3>1. inquote' /\ b' = SubSeq(arg, 1, j - r)
          BY <1>4, <2>2
    <3>2. r \in Nat /\ r = Run(arg, j + 1)
          BY <1>1
    <3> HIDE DEF r
    <3>3. nslash' = r + (t + 1)
          BY <1>4, <2>2, <3>2
    <3>4. o + 1 = Written(arg, j) + 1 + (t + 1) /\ t + 1 <= Extra(arg, j)
          BY <1>1, <1>4, <1>6
    <3>5. QED
          BY <3>1, <3>2, <3>3, <3>4 DEF Inside
  <2>4. QED
        BY <2>2, <2>3 DEF Reads
<1>7. CASE t = Extra(arg, j) /\ j = Len(arg)
  <2>1. Next1 = Quote /\ t = r /\ nslash = 2 * r /\ o = Len(Quoted(arg))
    <3>1. ~(t < Extra(arg, j)) /\ o = Len(Quoted(arg))
          BY <1>1, <1>4, <1>7
    <3>2. Next1 = Quote
          BY <1>3, <1>7, <3>1
    <3>3. t = r /\ r \in Nat
          BY <1>1, <1>7 DEF Extra
    <3> HIDE DEF r
    <3>4. nslash = 2 * r
          BY <1>4, <3>3
    <3>5. QED
          BY <3>1, <3>2, <3>3, <3>4
  <2>2. nslash % 2 = 0 /\ nslash \div 2 = r
    <3>1. r \in Nat
          BY <1>1
    <3>2. QED
          BY <2>1, <3>1, EvenAndOdd
  <2>3. ~Doubled
        BY <2>1, CharactersAssumption DEF Faces, Doubled
  <2>4. ReadQuote
        BY <1>4, <2>1, <2>2, Which
  <2>5. /\ UNCHANGED <<line, meant, pc, args>> /\ at' = at + 1 /\ nslash' = 0 /\ inquote' = ~inquote
        /\ b' = b \o Slashes(r) \o <<>>
        BY <2>2, <2>3, <2>4 DEF ReadQuote, Shift
  <2>6. b' = arg
        BY <1>5, <1>7, <2>5
  <2>7. Closed(arg, o + 1)'
        BY <1>4, <2>1, <2>5, <2>6 DEF Closed
  <2>8. QED
        BY <2>5, <2>7 DEF Reads
<1>8. CASE t = Extra(arg, j) /\ j # Len(arg)
  <2> DEFINE c == arg[j + 1]
  <2>1. /\ j + 1 \in 1 .. Len(arg) /\ j + 1 \in 0 .. Len(arg) /\ c \in Characters /\ Next1 = c
        /\ Written(arg, j + 1) + 1 + 0 = o + 1
    <3>1. j + 1 \in 1 .. Len(arg) /\ j + 1 \in 0 .. Len(arg) /\ ~(t < Extra(arg, j))
          BY <1>1, <1>8
    <3>2. c \in Characters
          BY <3>1
    <3>3. Next1 = c
          BY <1>3, <1>8, <3>1
    <3>4. Written(arg, j + 1) + 1 + 0 = o + 1
          BY <1>1, <1>4, <1>8
    <3>5. QED
          BY <3>1, <3>2, <3>3, <3>4
  <2>2. /\ Run(arg, (j + 1) + 1) = IF c = Backslash THEN r + 1 ELSE 0
        /\ 0 <= Extra(arg, j + 1)
        BY <2>1, RunContinues, WrittenNext
  <2>3. SubSeq(arg, 1, j) \o <<c>> = SubSeq(arg, 1, j + 1)
        BY <2>1
  <2>4. CASE c = Backslash
    <3>1. t = 0
          BY <1>8, <2>4, CharactersAssumption DEF Extra
    <3>2. ReadBackslash
          BY <1>4, <2>1, <2>4, Which
    <3>3. /\ UNCHANGED <<line, meant, pc, args, b, inquote>> /\ at' = at + 1 /\ nslash' = nslash + 1
          BY <3>2 DEF ReadBackslash, Shift
    <3>4. (j + 1) - (r + 1) = j - r /\ nslash' = (r + 1) + 0
      <4>1. r \in Nat /\ nslash = r + t /\ nslash' = nslash + 1
            BY <1>1, <1>4, <3>3
      <4> HIDE DEF r
      <4>2. QED
            BY <3>1, <4>1
    <3>5. Inside(arg, o + 1, j + 1, 0)'
          BY <1>4, <2>1, <2>2, <2>4, <3>3, <3>4 DEF Inside
    <3>6. QED
          BY <2>1, <3>3, <3>5 DEF Reads
  <2>5. ASSUME c # Backslash, b' = SubSeq(arg, 1, j + 1), nslash' = 0, inquote' = inquote,
               UNCHANGED <<line, meant, pc, args>>, at' = at + 1
        PROVE /\ UNCHANGED <<line, meant, pc, args>> /\ at' = at + 1
              /\ Reads(arg, o + 1)'
    <3>1. (j + 1) - 0 = j + 1
          BY <1>1
    <3>2. Inside(arg, o + 1, j + 1, 0)'
          BY <1>4, <2>1, <2>2, <2>5, <3>1 DEF Inside
    <3>3. QED
          BY <2>1, <2>5, <3>2 DEF Reads
  <2>6. CASE c = Quote
    <3>1. nslash = 2 * r + 1
          BY <1>1, <1>4, <1>8, <2>6 DEF Extra
    <3>2. nslash % 2 = 1 /\ nslash \div 2 = r
      <4>1. r \in Nat
            BY <1>1
      <4>2. QED
            BY <3>1, <4>1, EvenAndOdd
    <3>3. ReadEscapedQuote
          BY <1>4, <2>1, <2>6, <3>2, Which
    <3>4. b' = SubSeq(arg, 1, j + 1)
          BY <1>5, <2>3, <2>6, <3>2, <3>3 DEF ReadEscapedQuote
    <3>5. QED
          BY <2>5, <2>6, <3>3, <3>4, CharactersAssumption DEF ReadEscapedQuote, Shift
  <2>7. CASE c \notin {Quote, Backslash}
    <3>1. nslash = r
      <4>1. Extra(arg, j) = 0
            BY <1>8, <2>7 DEF Extra
      <4>2. r \in Nat
            BY <1>1
      <4> HIDE DEF r
      <4>3. QED
            BY <1>4, <1>8, <4>1, <4>2
    <3>2. ReadOther
          BY <1>4, <2>1, <2>7, Which
    <3>3. b' = SubSeq(arg, 1, j + 1)
          BY <1>5, <2>1, <2>3, <3>1, <3>2 DEF ReadOther
    <3>4. QED
          BY <2>5, <2>7, <3>2, <3>3 DEF ReadOther, Shift
  <2>8. QED
        BY <2>4, <2>6, <2>7
<1>9. t < Extra(arg, j) \/ t = Extra(arg, j)
      BY <1>1, <1>2
<1>10. QED
      BY <1>6, <1>7, <1>8, <1>9

-----------------------------------------------------------------------------
(* A line that is made of arguments: the first k of them end at Begun.     *)
Begun(list, k) == PlacesOf(Blocks(list))[k]

LEMMA BlocksTyped ==
    ASSUME NEW list \in Seq(Seq(Characters))
    PROVE /\ Blocks(list) \in Seq(Seq(Characters)) /\ Len(Blocks(list)) = Len(list)
          /\ Len(list) \in Nat /\ CommandLine(list) \in Seq(Characters)
PROOF
<1>1. ASSUME NEW i \in 1 .. Len(list) PROVE Quoted(list[i]) \o <<Blank>> \in Seq(Characters)
  <2>1. list[i] \in Seq(Characters)
        OBVIOUS
  <2>2. Quoted(list[i]) \in Seq(Characters)
        BY <2>1, QuotedIs
  <2>3. Blank \in Characters
        BY DEF Characters
  <2>4. QED
        BY <2>2, <2>3
<1>2. Blocks(list) \in Seq(Seq(Characters)) /\ Len(Blocks(list)) = Len(list)
      BY <1>1 DEF Blocks
<1>3. QED
      BY <1>2, FlattenTyped DEF CommandLine

LEMMA OneMore == ASSUME NEW m \in Nat, NEW n \in Nat PROVE m + (n + 1) = m + n + 1
PROOF OBVIOUS

LEMMA LineIs ==
    ASSUME NEW list \in Seq(Seq(Characters))
    PROVE /\ Begun(list, 0) = 0 /\ Begun(list, Len(list)) = Len(CommandLine(list))
          /\ \A k \in 0 .. Len(list) : Begun(list, k) \in Nat
          /\ \A k \in 1 .. Len(list) :
                /\ Len(Quoted(list[k])) \in Nat
                /\ Begun(list, k) = Begun(list, k - 1) + Len(Quoted(list[k])) + 1
                /\ Begun(list, k) <= Len(CommandLine(list))
                /\ CommandLine(list)[Begun(list, k)] = Blank
                /\ \A i \in 1 .. Len(Quoted(list[k])) :
                      CommandLine(list)[Begun(list, k - 1) + i] = Quoted(list[k])[i]
PROOF
<1> DEFINE bb == Blocks(list)
           p == PlacesOf(bb)
           n == Len(list)
           flat == CommandLine(list)
<1>1. bb \in Seq(Seq(Characters)) /\ Len(bb) = n /\ n \in Nat
      BY BlocksTyped
<1>2. flat = FlattenSeq(bb)
      BY DEF CommandLine
<1>3. /\ p \in [0 .. n -> Nat] /\ p[0] = 0 /\ p[n] = Len(flat)
      /\ \A j \in 1 .. n : p[j] = p[j - 1] + Len(bb[j]) /\ p[j] <= p[n]
      /\ \A j \in 1 .. n : \A i \in 1 .. Len(bb[j]) : flat[p[j - 1] + i] = bb[j][i]
      BY <1>1, <1>2, PlacesAre DEF Places
<1>4. \A k \in 0 .. n : Begun(list, k) = p[k]
      BY DEF Begun
<1>5. \A k \in 1 .. n : bb[k] = Quoted(list[k]) \o <<Blank>>
      BY <1>1 DEF Blocks
<1> HIDE DEF p, n, flat, bb
<1>6. Begun(list, 0) = 0 /\ Begun(list, n) = Len(flat) /\ \A k \in 0 .. n : Begun(list, k) \in Nat
  <2>1. 0 \in 0 .. n /\ n \in 0 .. n
        BY <1>1
  <2>2. p[0] = 0 /\ p[n] = Len(flat) /\ \A k \in 0 .. n : p[k] \in Nat
        BY <1>3
  <2>3. QED
        BY <1>4, <2>1, <2>2
<1>7. ASSUME NEW k \in 1 .. n
      PROVE /\ Len(Quoted(list[k])) \in Nat
            /\ Begun(list, k) = Begun(list, k - 1) + Len(Quoted(list[k])) + 1
            /\ Begun(list, k) <= Len(flat)
            /\ flat[Begun(list, k)] = Blank
            /\ \A i \in 1 .. Len(Quoted(list[k])) :
                  flat[Begun(list, k - 1) + i] = Quoted(list[k])[i]
  <2> DEFINE q == Quoted(list[k])
             m == Len(q)
  <2>1. q \in Seq(Characters)
    <3>1. list[k] \in Seq(Characters)
          BY <1>7 DEF n
    <3>2. QED
          BY <3>1, QuotedIs
  <2>2. bb[k] = q \o <<Blank>>
        BY <1>5
  <2> HIDE DEF q
  <2>3. /\ m \in Nat /\ Len(bb[k]) = m + 1 /\ bb[k][m + 1] = Blank
        /\ \A i \in 1 .. m : bb[k][i] = q[i]
    <3>1. Blank \in Characters
          BY DEF Characters
    <3>2. QED
          BY <2>1, <2>2, <3>1
  <2> HIDE DEF m
  <2>4. k \in 0 .. n /\ k - 1 \in 0 .. n
        BY <1>1
  <2>5. /\ Begun(list, k) = p[k] /\ Begun(list, k - 1) = p[k - 1] /\ p[k - 1] \in Nat
        /\ p[k] = p[k - 1] + (m + 1) /\ p[k] <= Len(flat)
        BY <1>3, <1>4, <2>3, <2>4
  <2>6. \A i \in 1 .. m + 1 : flat[p[k - 1] + i] = bb[k][i]
        BY <1>3, <2>3
  <2>7. flat[p[k]] = Blank
    <3>1. m + 1 \in 1 .. m + 1
          BY <2>3
    <3>2. QED
          BY <2>3, <2>5, <2>6, <3>1
  <2>8. ASSUME NEW i \in 1 .. m PROVE flat[p[k - 1] + i] = q[i]
    <3>1. i \in 1 .. m + 1
          BY <2>3
    <3>2. QED
          BY <2>3, <2>6, <3>1
  <2>9. Begun(list, k) = Begun(list, k - 1) + m + 1
    <3>1. p[k - 1] + (m + 1) = p[k - 1] + m + 1
          BY <2>3, <2>5, OneMore
    <3>2. QED
          BY <2>5, <3>1
  <2>10. QED
        BY <2>3, <2>5, <2>7, <2>8, <2>9 DEF q, m
<1>8. QED
      BY <1>6, <1>7 DEF n, flat

(* After the first k arguments of a list, in the next one, or at the end.  *)
Reached(list, k) ==
    /\ args = SubSeq(list, 1, k)
    /\ pc = "between" => at = Begun(list, k) + 1
    /\ pc = "within" => k < Len(list) /\ Reads(list[k + 1], at - Begun(list, k))
    /\ pc = "returned" => k = Len(list)

LEMMA NextArgument ==
    ASSUME Typed, NEW list \in Seq(Seq(Characters)), line = CommandLine(list),
           NEW k \in 0 .. Len(list), Reached(list, k), pc = "between", Next
    PROVE line' = line /\ meant' = meant /\ Reached(list, k)'
PROOF
<1>1. at = Begun(list, k) + 1 /\ args = SubSeq(list, 1, k) /\ Begun(list, k) \in Nat
      BY LineIs DEF Reached
<1>2. CASE k = Len(list)
  <2>1. ~Left
    <3>1. Begun(list, k) = Len(line) /\ Len(line) \in Nat
          BY <1>2, LineIs DEF Typed
    <3>2. QED
          BY <1>1, <3>1 DEF Left
  <2>2. Return
        BY <2>1 DEF Next, SkipBlank, BeginArg, EndArg, ReadBackslash, ReadEscapedQuote, ReadQuote,
          ReadOther
  <2>3. /\ line' = line /\ meant' = meant /\ args' = args /\ pc' = "returned"
        BY <2>2 DEF Return
  <2>4. QED
        BY <1>1, <1>2, <2>3 DEF Reached
<1>3. CASE k # Len(list)
  <2> DEFINE arg == list[k + 1]
  <2>1. k + 1 \in 1 .. Len(list) /\ (k + 1) - 1 = k /\ arg \in Seq(Characters) /\ k < Len(list)
        BY <1>3
  <2>2. Quoted(arg)[1] = Quote /\ 1 \in 1 .. Len(Quoted(arg))
        BY <2>1, QuotedOpens
  <2>3. /\ Begun(list, k + 1) = Begun(list, k) + Len(Quoted(arg)) + 1 /\ Len(Quoted(arg)) \in Nat
        /\ Begun(list, k + 1) <= Len(line)
        /\ \A i \in 1 .. Len(Quoted(arg)) : line[Begun(list, k) + i] = Quoted(arg)[i]
    <3> HIDE DEF arg
    <3>1. arg = list[k + 1]
          BY DEF arg
    <3>2. QED
          BY <2>1, <3>1, LineIs
  <2> HIDE DEF arg
  <2>4. Left /\ Next1 = Quote
    <3>1. line[Begun(list, k) + 1] = Quote
          BY <2>2, <2>3
    <3>2. Begun(list, k) + 1 <= Len(line)
      <4>1. Len(line) \in Nat
            BY DEF Typed
      <4>2. QED
            BY <1>1, <2>3, <4>1
    <3>3. QED
          BY <1>1, <3>1, <3>2 DEF Left, Next1
  <2>5. Next1 # Blank
        BY <2>4, CharactersAssumption
  <2>6. BeginArg
        BY <2>4, <2>5 DEF Next, SkipBlank, Return, EndArg, ReadBackslash, ReadEscapedQuote,
          ReadQuote, ReadOther
  <2>7. /\ line' = line /\ meant' = meant /\ args' = args /\ pc' = "within" /\ at' = at
        /\ b' = <<>> /\ nslash' = 0 /\ inquote' = FALSE
        BY <2>6 DEF BeginArg
  <2>8. Opening(1)'
        BY <2>7 DEF Opening
  <2>9. Reads(arg, at - Begun(list, k))'
    <3>1. at' - Begun(list, k) = 1
          BY <1>1, <2>7
    <3>2. QED
          BY <2>8, <3>1 DEF Reads
  <2>10. QED
        BY <1>1, <2>1, <2>7, <2>9 DEF Reached, arg
<1>4. QED
      BY <1>2, <1>3

LEMMA FacesIt ==
    ASSUME Typed, NEW list \in Seq(Seq(Characters)), line = CommandLine(list),
           NEW k \in 0 .. Len(list) - 1, NEW o \in 1 .. Len(Quoted(list[k + 1])) + 1,
           at = Begun(list, k) + o
    PROVE Faces(list[k + 1], o) /\ Begun(list, k + 1) = Begun(list, k) + Len(Quoted(list[k + 1])) + 1
PROOF
<1> DEFINE q == Quoted(list[k + 1])
           from == Begun(list, k)
<1>1. k + 1 \in 1 .. Len(list) /\ (k + 1) - 1 = k /\ k \in 0 .. Len(list)
      OBVIOUS
<1>2. from \in Nat
      BY <1>1, LineIs
<1>3. /\ Len(q) \in Nat
      /\ Begun(list, k + 1) = Begun(list, (k + 1) - 1) + Len(q) + 1
      /\ Begun(list, k + 1) <= Len(line) /\ line[Begun(list, k + 1)] = Blank
      /\ \A i \in 1 .. Len(q) : line[Begun(list, (k + 1) - 1) + i] = q[i]
      BY <1>1, LineIs
<1>4. Len(line) \in Nat
      BY DEF Typed
<1>5. /\ Begun(list, k + 1) = from + Len(q) + 1
      /\ \A i \in 1 .. Len(q) : line[from + i] = q[i]
      BY <1>1, <1>3
<1>6. o \in 1 .. Len(q) + 1 /\ at = from + o
      OBVIOUS
<1> HIDE DEF q, from
<1>7. Left
  <2>1. at <= Len(line)
        BY <1>2, <1>3, <1>4, <1>5, <1>6
  <2>2. QED
        BY <2>1 DEF Left
<1>8. o \in 1 .. Len(q) => line[at] = q[o]
      BY <1>5, <1>6
<1>9. o = Len(q) => line[at + 1] = Blank
  <2>1. o = Len(q) => at + 1 = Begun(list, k + 1)
        BY <1>2, <1>3, <1>5, <1>6
  <2>2. QED
        BY <1>3, <2>1
<1>10. o = Len(q) + 1 => line[at] = Blank
  <2>1. o = Len(q) + 1 => at = Begun(list, k + 1)
        BY <1>2, <1>3, <1>5, <1>6
  <2>2. QED
        BY <1>3, <2>1
<1>11. Faces(list[k + 1], o)
      BY <1>7, <1>8, <1>9, <1>10 DEF Faces, q
<1>12. QED
      BY <1>5, <1>11 DEF q, from

LEMMA WithinIt ==
    ASSUME NEW arg \in Seq(Characters), NEW o, Reads(arg, o)
    PROVE o \in 1 .. Len(Quoted(arg)) + 1
PROOF
<1>1. 1 \in 1 .. Len(Quoted(arg)) /\ Len(Quoted(arg)) \in Nat
  <2>1. Quoted(arg) \in Seq(Characters)
        BY QuotedIs
  <2>2. QED
        BY <2>1, QuotedOpens
<1>2. CASE Opening(o) \/ Closed(arg, o)
      BY <1>1, <1>2 DEF Opening, Closed
<1>3. ASSUME NEW j \in 0 .. Len(arg), NEW t \in Nat, Inside(arg, o, j, t)
      PROVE o \in 1 .. Len(Quoted(arg)) + 1
  <2>1. /\ Extra(arg, j) \in Nat /\ Written(arg, j) \in Nat
        /\ Written(arg, j) + 1 + Extra(arg, j) <= Len(Quoted(arg))
        BY WrittenNext
  <2>2. o = Written(arg, j) + 1 + t /\ t <= Extra(arg, j)
        BY <1>3 DEF Inside
  <2>3. QED
        BY <1>1, <2>1, <2>2
<1>4. QED
      BY <1>2, <1>3 DEF Reads

LEMMA SameArgument ==
    ASSUME Typed, NEW list \in Seq(Seq(Characters)), line = CommandLine(list),
           NEW k \in 0 .. Len(list), Reached(list, k), pc = "within", Next
    PROVE /\ line' = line /\ meant' = meant
          /\ Reached(list, k)' \/ (k + 1 \in 0 .. Len(list) /\ Reached(list, k + 1)')
PROOF
<1> DEFINE arg == list[k + 1]
           from == Begun(list, k)
<1>0. PICK o : o = at - from
      OBVIOUS
<1>1. k < Len(list) /\ Reads(arg, o) /\ args = SubSeq(list, 1, k)
      BY <1>0 DEF Reached
<1>2. arg \in Seq(Characters) /\ k \in 0 .. Len(list) - 1 /\ k + 1 \in 1 .. Len(list)
      BY <1>1
<1>3. from \in Nat /\ at \in Nat
      BY LineIs DEF Typed, TypeOK
<1> HIDE DEF arg
<1>4. o \in 1 .. Len(Quoted(arg)) + 1
      BY <1>1, <1>2, WithinIt
<1> HIDE DEF from
<1>5. at = from + o
      BY <1>0, <1>3
<1>6. Faces(arg, o) /\ Begun(list, k + 1) = from + Len(Quoted(arg)) + 1
      BY <1>2, <1>4, <1>5, FacesIt DEF arg, from
<1>7. ASSUME line' = line, meant' = meant, pc' = pc, args' = args, at' = at + 1,
             Reads(arg, o + 1)'
      PROVE line' = line /\ meant' = meant /\ Reached(list, k)'
  <2>1. at' - from = o + 1
        BY <1>3, <1>4, <1>5, <1>7
  <2>2. Reads(list[k + 1], at - Begun(list, k))' <=> Reads(list[k + 1], o + 1)'
        BY <2>1 DEF from, Reads, Opening, Closed, Inside
  <2>3. QED
        BY <1>1, <1>7, <2>2 DEF Reached, arg
<1>8. CASE Opening(o)
  <2>1. /\ UNCHANGED <<line, meant, pc, args>> /\ at' = at + 1 /\ Inside(arg, o + 1, 0, 0)'
        BY <1>2, <1>6, <1>8, Opens
  <2>2. 0 \in 0 .. Len(arg) /\ 0 \in Nat
        BY <1>2
  <2>3. Reads(arg, o + 1)'
        BY <2>1, <2>2 DEF Reads
  <2>4. QED
        BY <1>7, <2>1, <2>3
<1>9. CASE Closed(arg, o)
  <2>1. /\ line' = line /\ meant' = meant /\ at' = at + 1
        /\ pc' = "between" /\ args' = Append(args, arg)
        BY <1>2, <1>6, <1>9, Closes
  <2>2. args' = SubSeq(list, 1, k + 1)
        BY <1>1, <1>2, <2>1 DEF arg
  <2>3. at' = Begun(list, k + 1) + 1
    <3>1. o = Len(Quoted(arg)) + 1
          BY <1>9 DEF Closed
    <3>2. QED
          BY <1>3, <1>4, <1>5, <1>6, <2>1, <3>1
  <2>4. QED
        BY <1>2, <2>1, <2>2, <2>3 DEF Reached
<1>10. ASSUME NEW j \in 0 .. Len(arg), NEW t \in Nat, Inside(arg, o, j, t)
       PROVE line' = line /\ meant' = meant /\ Reached(list, k)'
  <2>1. /\ UNCHANGED <<line, meant, pc, args>> /\ at' = at + 1 /\ Reads(arg, o + 1)'
        BY <1>2, <1>6, <1>10, ReadsOn
  <2>2. QED
        BY <1>7, <2>1
<1>11. QED
      BY <1>1, <1>8, <1>9, <1>10 DEF Reads

(* Any line, with or without a list of arguments that it was made of.      *)
MadeOf(list) == meant = <<list>> /\ line = CommandLine(list)
AnyMeaning == meant = <<>> \/ \E list \in Seq(Seq(Characters)) : MadeOf(list)
AnyList == AnyMeaning /\ AnyLine

Arriving ==
    \/ meant = <<>>
    \/ \E list \in Seq(Seq(Characters)) :
          MadeOf(list) /\ \E k \in 0 .. Len(list) : Reached(list, k)

LEMMA ArrivingGoesOn == Typed /\ Arriving /\ [Next]_vars => Arriving'
PROOF
<1> SUFFICES ASSUME Typed, Arriving, [Next]_vars PROVE Arriving'
    OBVIOUS
<1>1. CASE meant = <<>>
  <2>1. meant' = meant
        BY DEF Next, SkipBlank, BeginArg, Return, EndArg, ReadBackslash, ReadEscapedQuote,
          ReadQuote, ReadOther, vars
  <2>2. QED
        BY <1>1, <2>1 DEF Arriving
<1>2. ASSUME NEW list \in Seq(Seq(Characters)), MadeOf(list),
             NEW k \in 0 .. Len(list), Reached(list, k)
      PROVE Arriving'
  <2>1. line = CommandLine(list) /\ meant = <<list>>
        BY <1>2 DEF MadeOf
  <2>2. ASSUME NEW m \in 0 .. Len(list), line' = line, meant' = meant, Reached(list, m)'
        PROVE Arriving'
        BY <2>1, <2>2 DEF Arriving, MadeOf
  <2>3. CASE UNCHANGED vars
    <3>1. line' = line /\ meant' = meant /\ Reached(list, k)'
          BY <1>2, <2>3 DEF vars, Reached, Reads, Opening, Closed, Inside
    <3>2. QED
          BY <2>2, <3>1
  <2>4. CASE Next /\ pc = "between"
        BY <1>2, <2>1, <2>2, <2>4, NextArgument
  <2>5. CASE Next /\ pc = "within"
        BY <1>2, <2>1, <2>2, <2>5, SameArgument
  <2>6. Next => pc = "between" \/ pc = "within"
        BY DEF Next, SkipBlank, BeginArg, Return, EndArg, ReadBackslash, ReadEscapedQuote,
          ReadQuote, ReadOther
  <2>7. QED
        BY <2>3, <2>4, <2>5, <2>6
<1>3. QED
      BY <1>1, <1>2 DEF Arriving

(* MeansWhatWasMeant of Argv: whatever a list holds, and however long it   *)
(* is, the line that quotes it is split into exactly that list.            *)
THEOREM ArgumentsArrive == AnyList => []MeansWhatWasMeant
PROOF
<1>1. AnyMeaning /\ Begins => Arriving
  <2> SUFFICES ASSUME AnyMeaning, Begins, meant # <<>> PROVE Arriving
      BY DEF Arriving
  <2>1. PICK list \in Seq(Seq(Characters)) : MadeOf(list)
        BY DEF AnyMeaning
  <2>2. 0 \in 0 .. Len(list) /\ SubSeq(list, 1, 0) = <<>> /\ Begun(list, 0) + 1 = 1
    <3>1. Begun(list, 0) = 0
          BY LineIs
    <3>2. QED
          BY <3>1
  <2>3. Reached(list, 0)
        BY <2>2 DEF Reached, Begins
  <2>4. QED
        BY <2>1, <2>2, <2>3 DEF Arriving
<1>2. Arriving => MeansWhatWasMeant
  <2> SUFFICES ASSUME Arriving, pc = "returned", meant # <<>> PROVE args = meant[1]
      BY DEF MeansWhatWasMeant
  <2>1. PICK list \in Seq(Seq(Characters)) : meant = <<list>> /\ args = SubSeq(list, 1, Len(list))
        BY DEF Arriving, MadeOf, Reached
  <2>2. QED
        BY <2>1
<1>3. QED
      BY <1>1, <1>2, ArrivingGoesOn, TypesHold, PTL DEF AnyList, AnyLine

-----------------------------------------------------------------------------
(* Letters, and what is not one.                                           *)
Silent == Characters \ Letters
LetterBy(s) == [i \in 1 .. Len(s) |-> IF s[i] \in Letters THEN <<s[i]>> ELSE <<>>]

LEMMA LetterByTyped ==
    ASSUME NEW s \in Seq(Characters)
    PROVE /\ LetterBy(s) \in Seq(Seq(Characters)) /\ Len(LetterBy(s)) = Len(s)
          /\ OnlyLetters(s) = FlattenSeq(LetterBy(s)) /\ OnlyLetters(s) \in Seq(Characters)
PROOF
<1>1. ASSUME NEW i \in 1 .. Len(s)
      PROVE (IF s[i] \in Letters THEN <<s[i]>> ELSE <<>>) \in Seq(Characters)
  <2>1. s[i] \in Characters
        OBVIOUS
  <2>2. QED
        BY <2>1, EmptySeq
<1>2. LetterBy(s) \in Seq(Seq(Characters)) /\ Len(LetterBy(s)) = Len(s)
      BY <1>1 DEF LetterBy
<1>3. OnlyLetters(s) = FlattenSeq(LetterBy(s))
      BY DEF OnlyLetters, LetterBy
<1>4. QED
      BY <1>2, <1>3, FlattenTyped

LEMMA LettersOfBoth ==
    ASSUME NEW s \in Seq(Characters), NEW t \in Seq(Characters)
    PROVE OnlyLetters(s \o t) = OnlyLetters(s) \o OnlyLetters(t)
PROOF
<1> DEFINE w == s \o t
<1>0. w = s \o t
      OBVIOUS
<1>1. /\ w \in Seq(Characters) /\ Len(w) = Len(s) + Len(t)
      /\ \A i \in 1 .. Len(s) : w[i] = s[i]
      /\ \A i \in 1 .. Len(t) : w[Len(s) + i] = t[i]
      BY Concatenated
<1> HIDE DEF w
<1> DEFINE both == LetterBy(s) \o LetterBy(t)
<1>2. both = LetterBy(s) \o LetterBy(t)
      OBVIOUS
<1>3. /\ LetterBy(s) \in Seq(Seq(Characters)) /\ Len(LetterBy(s)) = Len(s)
      /\ LetterBy(t) \in Seq(Seq(Characters)) /\ Len(LetterBy(t)) = Len(t)
      /\ LetterBy(w) \in Seq(Seq(Characters)) /\ Len(LetterBy(w)) = Len(w)
      BY <1>1, LetterByTyped
<1> HIDE DEF both
<1>4. /\ both \in Seq(Seq(Characters)) /\ Len(both) = Len(s) + Len(t)
      /\ \A i \in 1 .. Len(s) : both[i] = LetterBy(s)[i]
      /\ \A i \in 1 .. Len(t) : both[Len(s) + i] = LetterBy(t)[i]
  <2>1. /\ both \in Seq(Seq(Characters)) /\ Len(both) = Len(LetterBy(s)) + Len(LetterBy(t))
        /\ \A i \in 1 .. Len(LetterBy(s)) : both[i] = LetterBy(s)[i]
        /\ \A i \in 1 .. Len(LetterBy(t)) : both[Len(LetterBy(s)) + i] = LetterBy(t)[i]
    <3>1. LetterBy(s) \in Seq(Seq(Characters)) /\ LetterBy(t) \in Seq(Seq(Characters))
          BY <1>3
    <3>2. QED
          BY <1>2, <3>1, Concatenated
  <2>2. QED
        BY <1>3, <2>1
<1>5. ASSUME NEW i \in 1 .. Len(w) PROVE both[i] = LetterBy(w)[i]
  <2>1. LetterBy(w)[i] = IF w[i] \in Letters THEN <<w[i]>> ELSE <<>>
        BY DEF LetterBy
  <2>2. CASE i \in 1 .. Len(s)
    <3>1. LetterBy(s)[i] = IF s[i] \in Letters THEN <<s[i]>> ELSE <<>>
          BY <2>2 DEF LetterBy
    <3>2. w[i] = s[i] /\ both[i] = LetterBy(s)[i]
          BY <1>1, <1>4, <2>2
    <3>3. QED
          BY <2>1, <3>1, <3>2
  <2>3. CASE i \notin 1 .. Len(s)
    <3>1. PICK k \in 1 .. Len(t) : i = Len(s) + k
      <4>1. Len(s) \in Nat /\ Len(t) \in Nat /\ i \in 1 .. Len(s) + Len(t)
            BY <1>1
      <4>2. i - Len(s) \in 1 .. Len(t) /\ i = Len(s) + (i - Len(s))
            BY <2>3, <4>1
      <4>3. QED
            BY <4>2
    <3>2. LetterBy(t)[k] = IF t[k] \in Letters THEN <<t[k]>> ELSE <<>>
          BY DEF LetterBy
    <3>3. w[i] = t[k] /\ both[i] = LetterBy(t)[k]
          BY <1>1, <1>4, <3>1
    <3>4. QED
          BY <2>1, <3>2, <3>3
  <2>4. QED
        BY <2>2, <2>3
<1>6. both = LetterBy(w)
  <2>1. Len(both) = Len(LetterBy(w)) /\ \A i \in 1 .. Len(both) : both[i] = LetterBy(w)[i]
        BY <1>1, <1>3, <1>4, <1>5
  <2>2. QED
        BY <1>3, <1>4, <2>1, SeqEqual
<1>7. FlattenSeq(both) = FlattenSeq(LetterBy(s)) \o FlattenSeq(LetterBy(t))
      BY <1>2, <1>3, FlattenConcat
<1>8. QED
      BY <1>0, <1>1, <1>6, <1>7, LetterByTyped

LEMMA SilentNone ==
    ASSUME NEW c \in Silent
    PROVE OnlyLetters(<<c>>) = <<>>
PROOF
<1>1. <<c>> \in Seq(Characters)
      BY DEF Silent
<1>2. LetterBy(<<c>>) = <<<<>>>>
      BY DEF LetterBy, Silent
<1>3. <<<<>>>> = Append(<<>>, <<>>)
      OBVIOUS
<1>4. <<>> \in Seq(Seq(Characters)) /\ <<>> \in Seq(Characters)
      BY EmptySeq
<1>5. FlattenSeq(Append(<<>>, <<>>)) = FlattenSeq(<<>>) \o <<>>
      BY <1>4, FlattenLast
<1>6. OnlyLetters(<<c>>) = FlattenSeq(LetterBy(<<c>>))
      BY <1>1, LetterByTyped
<1>7. <<>> \o <<>> = <<>>
      OBVIOUS
<1>8. QED
      BY <1>2, <1>3, <1>5, <1>6, <1>7, FlattenEmpty

LEMMA Silence ==
    ASSUME NEW s \in Seq(Silent)
    PROVE OnlyLetters(s) = <<>>
PROOF
<1> DEFINE T == {u \in Seq(Silent) : OnlyLetters(u) = <<>>}
<1>1. <<>> \in T
  <2>1. <<>> \in Seq(Characters) /\ <<>> \in Seq(Silent) /\ LetterBy(<<>>) = <<>>
        BY EmptySeq DEF LetterBy
  <2>2. OnlyLetters(<<>>) = <<>>
        BY <2>1, FlattenEmpty, LetterByTyped
  <2>3. QED
        BY <2>1, <2>2
<1>2. ASSUME NEW u \in Seq(Silent), u \in T, NEW c \in Silent PROVE Append(u, c) \in T
  <2>1. /\ u \in Seq(Characters) /\ <<c>> \in Seq(Characters)
        /\ Append(u, c) \in Seq(Silent) /\ Append(u, c) = u \o <<c>>
        BY DEF Silent
  <2>2. OnlyLetters(u \o <<c>>) = <<>> \o <<>>
        BY <1>2, <2>1, LettersOfBoth, SilentNone
  <2>3. QED
        BY <2>1, <2>2
<1>3. \A u \in Seq(Silent) \cap T, c \in Silent : Append(u, c) \in T
      BY <1>2
<1> HIDE DEF T
<1>4. Seq(Silent) \subseteq T
      BY <1>1, <1>3, SequenceInduction
<1>5. QED
      BY <1>4 DEF T

LEMMA SilentOnes ==
    /\ Blank \in Silent /\ Quote \in Silent /\ Backslash \in Silent
    /\ \A n \in Nat : Slashes(n) \in Seq(Silent)
PROOF
<1>1. Blank \in Silent /\ Quote \in Silent /\ Backslash \in Silent
      BY CharactersAssumption DEF Silent, Characters
<1>2. QED
      BY <1>1 DEF Slashes

(* What has been written, and what has been read.                          *)
Output == FlattenSeq(args) \o IF pc = "within" THEN b ELSE <<>>

LEMMA LettersGoOn ==
    ASSUME LettersKept, Output \in Seq(Characters), SubSeq(line, 1, at - 1) \in Seq(Characters),
           NEW s \in Seq(Characters), NEW t \in Seq(Characters),
           Output' = Output \o s, SubSeq(line, 1, at - 1)' = SubSeq(line, 1, at - 1) \o t,
           OnlyLetters(s) = OnlyLetters(t)
    PROVE LettersKept'
PROOF
<1>1. OnlyLetters(Output) = OnlyLetters(SubSeq(line, 1, at - 1))
      BY DEF LettersKept, Output
<1>2. OnlyLetters(Output') = OnlyLetters(Output) \o OnlyLetters(s)
      BY LettersOfBoth
<1>3. OnlyLetters(SubSeq(line, 1, at - 1)') = OnlyLetters(SubSeq(line, 1, at - 1)) \o OnlyLetters(t)
      BY LettersOfBoth
<1>4. OnlyLetters(Output') = OnlyLetters(SubSeq(line, 1, at - 1)')
      BY <1>1, <1>2, <1>3
<1>5. OnlyLetters(Output)' = OnlyLetters(Output') /\ OnlyLetters(SubSeq(line, 1, at - 1))' = OnlyLetters(SubSeq(line, 1, at - 1)')
      BY DEF OnlyLetters
<1>6. QED
      BY <1>4, <1>5 DEF LettersKept, Output

LEMMA ReadUpto ==
    ASSUME NEW s \in Seq(Characters), NEW i \in 1 .. Len(s) + 1, NEW j \in i .. Len(s) + 1
    PROVE /\ SubSeq(s, 1, j - 1) = SubSeq(s, 1, i - 1) \o SubSeq(s, i, j - 1)
          /\ SubSeq(s, 1, i - 1) \in Seq(Characters) /\ SubSeq(s, i, j - 1) \in Seq(Characters)
PROOF
<1> DEFINE u == SubSeq(s, 1, i - 1)
           v == SubSeq(s, i, j - 1)
           w == u \o v
<1>0. w = u \o v
      OBVIOUS
<1>1. /\ u \in Seq(Characters) /\ Len(u) = i - 1
      /\ \A k \in 1 .. i - 1 : u[k] = s[k]
      OBVIOUS
<1>2. /\ v \in Seq(Characters) /\ Len(v) = j - i
      /\ \A k \in 1 .. j - i : v[k] = s[(i - 1) + k]
      OBVIOUS
<1>3. /\ SubSeq(s, 1, j - 1) \in Seq(Characters) /\ Len(SubSeq(s, 1, j - 1)) = j - 1
      /\ \A k \in 1 .. j - 1 : SubSeq(s, 1, j - 1)[k] = s[k]
      OBVIOUS
<1>4. u \in Seq(Characters) /\ v \in Seq(Characters)
      BY <1>1, <1>2
<1> HIDE DEF u, v, w
<1>5. /\ w \in Seq(Characters) /\ Len(w) = Len(u) + Len(v)
      /\ \A k \in 1 .. Len(u) : w[k] = u[k]
      /\ \A k \in 1 .. Len(v) : w[Len(u) + k] = v[k]
      BY <1>0, <1>4, Concatenated
<1>6. Len(w) = j - 1
      BY <1>1, <1>2, <1>5
<1>7. ASSUME NEW k \in 1 .. j - 1 PROVE w[k] = s[k]
  <2>1. CASE k \in 1 .. i - 1
        BY <1>1, <1>5, <2>1
  <2>2. CASE k \notin 1 .. i - 1
    <3>1. PICK m \in 1 .. j - i : k = (i - 1) + m
      <4>1. k - (i - 1) \in 1 .. j - i /\ k = (i - 1) + (k - (i - 1))
            BY <2>2
      <4>2. QED
            BY <4>1
    <3>2. QED
          BY <1>1, <1>2, <1>5, <3>1
  <2>3. QED
        BY <2>1, <2>2
<1>8. w = SubSeq(s, 1, j - 1)
      BY <1>3, <1>5, <1>6, <1>7, SeqEqual
<1>9. QED
      BY <1>4, <1>8 DEF u, v, w

LEMMA Regrouped ==
    ASSUME NEW s \in Seq(Characters), NEW t \in Seq(Characters), NEW u \in Seq(Characters)
    PROVE (s \o t) \o u = s \o (t \o u)
PROOF BY ConcatAssociative

LEMMA PartIn ==
    ASSUME NEW s \in Seq(Characters), NEW i \in 1 .. Len(s) + 1, NEW j \in i .. Len(s) + 1,
           NEW S, \A k \in i .. j - 1 : s[k] \in S
    PROVE SubSeq(s, i, j - 1) \in Seq(S)
PROOF OBVIOUS

LEMMA Steps ==
    ASSUME NEW i \in Nat, NEW j
    PROVE /\ j = i => i .. j - 1 = {}
          /\ j = i + 1 => i .. j - 1 = {i}
          /\ j = i + 2 => i .. j - 1 = {i, i + 1}
PROOF OBVIOUS

LEMMA OneOf ==
    ASSUME NEW s \in Seq(Characters), NEW i \in 1 .. Len(s)
    PROVE SubSeq(s, i, i) = <<s[i]>>
PROOF
<1>1. /\ SubSeq(s, i, i) \in Seq(Characters) /\ Len(SubSeq(s, i, i)) = 1
      /\ SubSeq(s, i, i)[1] = s[i]
      OBVIOUS
<1>2. <<s[i]>> \in Seq(Characters) /\ Len(<<s[i]>>) = 1 /\ <<s[i]>>[1] = s[i]
      OBVIOUS
<1>3. \A k \in 1 .. 1 : SubSeq(s, i, i)[k] = <<s[i]>>[k]
      BY <1>1, <1>2
<1>4. QED
      BY <1>1, <1>2, <1>3, SeqEqual

(* Nothing but letters shows, so a step without one changes nothing.       *)
LEMMA LettersNext ==
    ASSUME Typed, Typed', LettersKept, [Next]_vars
    PROVE LettersKept'
PROOF
<1>1. /\ line \in Seq(Characters) /\ b \in Seq(Characters) /\ args \in Seq(Seq(Characters))
      /\ at \in 1 .. Len(line) + 1 /\ at' \in 1 .. Len(line') + 1 /\ nslash \in Nat
      BY DEF Typed, TypeOK
<1>2. FlattenSeq(args) \in Seq(Characters)
      BY <1>1, FlattenTyped
<1>3. Output \in Seq(Characters)
      BY <1>1, <1>2, EmptySeq DEF Output
<1>4. /\ pc = "within" => Output = FlattenSeq(args) \o b
      /\ pc # "within" => Output = FlattenSeq(args)
      /\ pc' = "within" => Output' = FlattenSeq(args') \o b'
      /\ pc' # "within" => Output' = FlattenSeq(args')
  <2>1. pc' # "within" => FlattenSeq(args') \in Seq(Characters)
    <3>1. args' \in Seq(Seq(Characters))
          BY DEF Typed, TypeOK
    <3>2. QED
          BY <3>1, FlattenTyped
  <2>2. QED
        BY <1>2, <2>1, ConcatEmptySeq DEF Output
<1> DEFINE from == SubSeq(line, 1, at - 1)
<1>5. ASSUME line' = line, at' >= at, NEW s \in Seq(Characters), Output' = Output \o s,
             OnlyLetters(s) = OnlyLetters(SubSeq(line, at, at' - 1))
      PROVE LettersKept'
  <2>1. at' \in at .. Len(line) + 1
        BY <1>1, <1>5
  <2>2. /\ SubSeq(line, 1, at' - 1) = from \o SubSeq(line, at, at' - 1)
        /\ from \in Seq(Characters) /\ SubSeq(line, at, at' - 1) \in Seq(Characters)
        BY <1>1, <2>1, ReadUpto
  <2>3. from' = SubSeq(line, 1, at' - 1)
        BY <1>5
  <2>4. QED
        BY <1>3, <1>5, <2>2, <2>3, LettersGoOn
<1>6. ASSUME line' = line, at' >= at, NEW s \in Seq(Silent), Output' = Output \o s,
             \A i \in at .. at' - 1 : line[i] \in Silent
      PROVE LettersKept'
  <2>1. s \in Seq(Characters)
        BY DEF Silent
  <2>2. SubSeq(line, at, at' - 1) \in Seq(Silent)
    <3>1. at' \in at .. Len(line) + 1
          BY <1>1, <1>6
    <3>2. QED
          BY <1>1, <1>6, <3>1, PartIn
  <2>3. OnlyLetters(s) = <<>> /\ OnlyLetters(SubSeq(line, at, at' - 1)) = <<>>
        BY <2>2, Silence
  <2>4. QED
        BY <1>5, <1>6, <2>1, <2>3
<1>7. CASE SkipBlank \/ BeginArg \/ Return \/ ReadBackslash
  <2>1. /\ line' = line /\ args' = args /\ at' \in {at, at + 1}
        /\ at' = at + 1 => line[at] \in {Blank, Backslash}
    <3>1. at \in Nat /\ at # at + 1
          BY <1>1
    <3>2. QED
          BY <1>7, <3>1 DEF SkipBlank, BeginArg, Return, ReadBackslash, Shift, Next1
  <2>2. at' >= at /\ \A i \in at .. at' - 1 : line[i] \in Silent
    <3>1. line[at] \in {Blank, Backslash} => line[at] \in Silent
          BY SilentOnes
    <3>2. at' >= at
          BY <1>1, <2>1
    <3>3. at .. at' - 1 = {} \/ (at' = at + 1 /\ at .. at' - 1 = {at})
      <4>1. at \in Nat
            BY <1>1
      <4>2. QED
            BY <2>1, <4>1, Steps
    <3>4. QED
          BY <2>1, <3>1, <3>2, <3>3
  <2>3. Output' = Output
    <3>1. CASE pc = "within"
      <4>1. pc' = "within" /\ b' = b
            BY <1>7, <3>1 DEF SkipBlank, BeginArg, Return, ReadBackslash
      <4>2. QED
            BY <1>4, <2>1, <3>1, <4>1
    <3>2. CASE pc # "within"
      <4>1. pc' = "within" => b' = <<>>
            BY <1>7, <3>2 DEF SkipBlank, BeginArg, Return, ReadBackslash
      <4>2. QED
            BY <1>2, <1>4, <2>1, <3>2, <4>1, ConcatEmptySeq
    <3>3. QED
          BY <3>1, <3>2
  <2>4. <<>> \in Seq(Silent) /\ Output' = Output \o <<>>
        BY <1>3, <2>3, EmptySeq, ConcatEmptySeq
  <2>5. QED
        BY <1>6, <2>1, <2>2, <2>4
<1>8. CASE EndArg
  <2>1. /\ line' = line /\ pc = "within" /\ pc' # "within"
        /\ args' = Append(args, b \o Slashes(nslash))
        BY <1>8 DEF EndArg
  <2>2. Slashes(nslash) \in Seq(Silent) /\ Slashes(nslash) \in Seq(Characters)
        BY <1>1, SilentOnes, SlashesAre
  <2>3. FlattenSeq(args') = FlattenSeq(args) \o (b \o Slashes(nslash))
    <3>1. b \o Slashes(nslash) \in Seq(Characters)
          BY <1>1, <2>2
    <3>2. QED
          BY <1>1, <2>1, <3>1, FlattenLast
  <2>4. Output' = Output \o Slashes(nslash)
    <3>1. (FlattenSeq(args) \o b) \o Slashes(nslash) = FlattenSeq(args) \o (b \o Slashes(nslash))
          BY <1>1, <1>2, <2>2, Regrouped
    <3>2. QED
          BY <1>4, <2>1, <2>3, <3>1
  <2>5. at' >= at /\ \A i \in at .. at' - 1 : line[i] \in Silent
    <3>1. at' = at \/ (at' = at + 1 /\ line[at] = Blank)
          BY <1>1, <1>8 DEF EndArg, Shift, Next1
    <3>2. at' >= at
          BY <1>1, <3>1
    <3>3. at .. at' - 1 = {} \/ (line[at] = Blank /\ at .. at' - 1 = {at})
      <4>1. at \in Nat
            BY <1>1
      <4>2. QED
            BY <3>1, <4>1, Steps
    <3>4. QED
          BY <3>2, <3>3, SilentOnes
  <2>6. QED
        BY <1>6, <2>1, <2>2, <2>4, <2>5
<1>9. ASSUME line' = line, args' = args, pc = "within", pc' = "within",
             NEW s \in Seq(Characters), b' = b \o s
      PROVE Output' = Output \o s
  <2>1. (FlattenSeq(args) \o b) \o s = FlattenSeq(args) \o (b \o s)
        BY <1>1, <1>2, Regrouped
  <2>2. QED
        BY <1>4, <1>9, <2>1
<1>10. CASE ReadEscapedQuote \/ ReadQuote
  <2>1. nslash \div 2 \in Nat
        BY <1>1, Halved
  <2>2. Slashes(nslash \div 2) \in Seq(Silent)
        BY <2>1, SilentOnes
  <2>3. PICK e \in {<<Quote>>, <<>>} : b' = (b \o Slashes(nslash \div 2)) \o e
        BY <1>10 DEF ReadEscapedQuote, ReadQuote
  <2>4. e \in Seq(Silent)
    <3>1. <<Quote>> \in Seq(Silent) /\ <<>> \in Seq(Silent)
          BY SilentOnes, EmptySeq
    <3>2. QED
          BY <3>1
  <2> DEFINE s == Slashes(nslash \div 2) \o e
  <2>5. s \in Seq(Silent) /\ s \in Seq(Characters)
        BY <2>2, <2>4 DEF Silent
  <2>6. b' = b \o s
    <3>1. Slashes(nslash \div 2) \in Seq(Characters) /\ e \in Seq(Characters)
          BY <2>2, <2>4 DEF Silent
    <3>2. QED
          BY <1>1, <2>3, <3>1, Regrouped
  <2>7. line' = line /\ args' = args /\ pc = "within" /\ pc' = "within"
        BY <1>10 DEF ReadEscapedQuote, ReadQuote
  <2>8. at' >= at /\ \A i \in at .. at' - 1 : line[i] \in Silent
    <3>1. line[at] = Quote /\ (at' = at + 1 \/ (at' = at + 2 /\ line[at + 1] = Quote))
          BY <1>1, <1>10 DEF ReadEscapedQuote, ReadQuote, Doubled, Shift, Next1
    <3>2. at' >= at
          BY <1>1, <3>1
    <3>3. \/ at .. at' - 1 = {at}
          \/ line[at + 1] = Quote /\ at .. at' - 1 = {at, at + 1}
      <4>1. at \in Nat
            BY <1>1
      <4>2. QED
            BY <3>1, <4>1, Steps
    <3>4. QED
          BY <3>1, <3>2, <3>3, SilentOnes
  <2> HIDE DEF s
  <2>9. Output' = Output \o s
        BY <1>9, <2>5, <2>6, <2>7
  <2>10. QED
        BY <1>6, <2>5, <2>7, <2>8, <2>9
<1>11. CASE ReadOther
  <2>1. /\ line' = line /\ args' = args /\ pc = "within" /\ pc' = "within" /\ Left
        /\ at' = at + 1 /\ b' = (b \o Slashes(nslash)) \o <<line[at]>>
        BY <1>11 DEF ReadOther, Shift, Next1
  <2>2. at \in 1 .. Len(line) /\ at' >= at /\ SubSeq(line, at, at' - 1) = <<line[at]>>
    <3>1. at \in 1 .. Len(line) /\ at' - 1 = at /\ at' >= at
          BY <1>1, <2>1 DEF Left
    <3>2. SubSeq(line, at, at) = <<line[at]>>
          BY <1>1, <3>1, OneOf
    <3>3. QED
          BY <3>1, <3>2
  <2>3. <<line[at]>> \in Seq(Characters)
        BY <1>1, <2>2
  <2>4. Slashes(nslash) \in Seq(Silent) /\ Slashes(nslash) \in Seq(Characters)
        BY <1>1, SilentOnes, SlashesAre
  <2> DEFINE s == Slashes(nslash) \o <<line[at]>>
  <2>5. s \in Seq(Characters)
        BY <2>3, <2>4
  <2>6. b' = b \o s
        BY <1>1, <2>1, <2>3, <2>4, Regrouped
  <2>7. OnlyLetters(s) = OnlyLetters(<<line[at]>>)
    <3>1. OnlyLetters(s) = OnlyLetters(Slashes(nslash)) \o OnlyLetters(<<line[at]>>)
          BY <2>3, <2>4, LettersOfBoth
    <3>2. OnlyLetters(Slashes(nslash)) = <<>> /\ OnlyLetters(<<line[at]>>) \in Seq(Characters)
          BY <2>3, <2>4, Silence, LetterByTyped
    <3>3. QED
          BY <3>1, <3>2, ConcatEmptySeq
  <2> HIDE DEF s
  <2>8. Output' = Output \o s
        BY <1>9, <2>1, <2>5, <2>6
  <2>9. QED
        BY <1>5, <2>1, <2>2, <2>5, <2>7, <2>8
<1>12. CASE UNCHANGED vars
       BY <1>12 DEF vars, LettersKept, OnlyLetters
<1>13. QED
       BY <1>7, <1>8, <1>10, <1>11, <1>12 DEF Next

(* LettersKept of Argv: however a line is quoted, and well or badly, each  *)
(* letter read so far has been written once, and in its order.             *)
THEOREM NoLetterIsLost == AnyLine => []LettersKept
PROOF
<1>1. line \in Seq(Characters) /\ Begins => LettersKept
  <2> SUFFICES ASSUME line \in Seq(Characters), Begins PROVE LettersKept
      OBVIOUS
  <2>1. SubSeq(line, 1, at - 1) = <<>> /\ args = <<>> /\ pc # "within"
        BY DEF Begins
  <2>2. FlattenSeq(args) \o <<>> = <<>>
        BY <2>1, FlattenEmpty
  <2>3. QED
        BY <2>1, <2>2 DEF LettersKept
<1>2. QED
      BY <1>1, LettersNext, TypesHold, PTL DEF AnyLine

-----------------------------------------------------------------------------
(* Lines without quotes.                                                   *)
LEMMA SlashesMore ==
    ASSUME NEW n \in Nat
    PROVE Slashes(n + 1) = Slashes(n) \o <<Backslash>>
PROOF
<1>1. Backslash \in Characters
      BY DEF Characters
<1> DEFINE w == Slashes(n) \o <<Backslash>>
<1>2. /\ Slashes(n) \in Seq(Characters) /\ Len(Slashes(n)) = n
      /\ \A i \in 1 .. n : Slashes(n)[i] = Backslash
      BY SlashesAre
<1>3. /\ w \in Seq(Characters) /\ Len(w) = n + 1 /\ w[n + 1] = Backslash
      /\ \A i \in 1 .. n : w[i] = Slashes(n)[i]
      BY <1>1, <1>2
<1> HIDE DEF w
<1>4. n + 1 \in Nat
      OBVIOUS
<1>5. /\ Slashes(n + 1) \in Seq(Characters) /\ Len(Slashes(n + 1)) = n + 1
      /\ \A i \in 1 .. n + 1 : Slashes(n + 1)[i] = Backslash
      BY <1>4, SlashesAre
<1>6. \A i \in 1 .. n + 1 : w[i] = Backslash
      BY <1>2, <1>3
<1>7. Slashes(n + 1) = w
      BY <1>3, <1>5, <1>6, SeqEqual
<1>8. QED
      BY <1>7 DEF w

LEMMA ReadOne ==
    ASSUME NEW s \in Seq(Characters), NEW i \in 1 .. Len(s), NEW j \in 1 .. i
    PROVE SubSeq(s, j, i) = SubSeq(s, j, i - 1) \o <<s[i]>>
PROOF
<1> DEFINE u == SubSeq(s, j, i - 1)
           w == u \o <<s[i]>>
<1>1. /\ u \in Seq(Characters) /\ Len(u) = i - j /\ s[i] \in Characters
      /\ \A k \in 1 .. i - j : u[k] = s[(j - 1) + k]
      OBVIOUS
<1> HIDE DEF u
<1>2. /\ w \in Seq(Characters) /\ Len(w) = Len(u) + 1 /\ w[Len(u) + 1] = s[i]
      /\ \A k \in 1 .. Len(u) : w[k] = u[k]
      BY <1>1
<1> HIDE DEF w
<1>3. /\ SubSeq(s, j, i) \in Seq(Characters) /\ Len(SubSeq(s, j, i)) = (i - j) + 1
      /\ \A k \in 1 .. (i - j) + 1 : SubSeq(s, j, i)[k] = s[(j - 1) + k]
      OBVIOUS
<1>4. ASSUME NEW k \in 1 .. (i - j) + 1 PROVE w[k] = s[(j - 1) + k]
  <2>1. k \in 1 .. i - j \/ (k = (i - j) + 1 /\ (j - 1) + k = i)
        OBVIOUS
  <2>2. QED
        BY <1>1, <1>2, <2>1
<1>5. Len(w) = (i - j) + 1
      BY <1>1, <1>2
<1>6. SubSeq(s, j, i) = w
      BY <1>2, <1>3, <1>4, <1>5, SeqEqual
<1>7. QED
      BY <1>6 DEF w, u

LEMMA WordEnds ==
    ASSUME line \in Seq(Characters), NEW i \in 1 .. Len(line), NEW j \in i .. Len(line),
           \A k \in i .. j : ~IsBlank(k), j = Len(line) \/ IsBlank(j + 1)
    PROVE WordEnd(i) = j
PROOF
<1> DEFINE Ends(x) == (\A k \in i .. x : ~IsBlank(k)) /\ (x = Len(line) \/ IsBlank(x + 1))
<1>1. ASSUME NEW x \in i .. Len(line), NEW y \in i .. Len(line), Ends(x), Ends(y), x < y
      PROVE FALSE
  <2>1. x + 1 \in i .. y /\ x # Len(line)
        BY <1>1
  <2>2. QED
        BY <1>1, <2>1
<1>2. ASSUME NEW x \in i .. Len(line), Ends(x) PROVE x = j
  <2>1. x < j \/ j < x \/ x = j
        BY <1>2
  <2>2. QED
        BY <1>1, <1>2, <2>1
<1>3. Ends(j)
      OBVIOUS
<1>4. WordEnd(i) = CHOOSE x \in i .. Len(line) : Ends(x)
      BY DEF WordEnd
<1> HIDE DEF Ends
<1>5. QED
      BY <1>2, <1>3, <1>4

LEMMA BeforeHolds == AnyLine => []Before
PROOF
<1>1. Begins => Before
      BY DEF Begins, Before
<1>2. Typed /\ Before /\ [Next]_vars => Before'
  <2> SUFFICES ASSUME Typed, Before, [Next]_vars PROVE Before'
      OBVIOUS
  <2> USE DEF Typed, TypeOK, Before, Left, Next1, Shift
  <2>1. CASE SkipBlank \/ BeginArg \/ Return
        BY <2>1 DEF SkipBlank, BeginArg, Return
  <2>2. CASE EndArg
        BY <2>2 DEF EndArg
  <2>3. CASE ReadBackslash \/ ReadEscapedQuote \/ ReadQuote \/ ReadOther
        BY <2>3 DEF ReadBackslash, ReadEscapedQuote, ReadQuote, ReadOther
  <2>4. CASE UNCHANGED vars
        BY <2>4 DEF vars
  <2>5. QED
        BY <2>1, <2>2, <2>3, <2>4 DEF Next
<1>3. QED
      BY <1>1, <1>2, TypesHold, PTL DEF AnyLine

(* The arguments are the words that begin before place p; the one that     *)
(* began at s is being read.                                               *)
Plain == \A i \in 1 .. Len(line) : line[i] # Quote
StartsBefore(p) == {i \in WordStarts : i < p}
Split(words, p) ==
    \E starts \in [1 .. Len(words) -> WordStarts] :
        AreStarts(starts, words) /\ Range(starts) = StartsBefore(p)
Word(s) ==
    /\ s \in WordStarts /\ s <= at /\ \A k \in s .. at - 1 : ~IsBlank(k)
    /\ b \o Slashes(nslash) = SubSeq(line, s, at - 1)

Splitting ==
    Plain => /\ ~inquote
             /\ pc # "within" => Split(args, at)
             /\ pc = "within" => \E s \in Nat : Word(s) /\ Split(args, s)
             /\ pc = "returned" => ~Left

LEMMA SplitMore ==
    ASSUME line \in Seq(Characters), NEW words \in Seq(Seq(Characters)), NEW s \in WordStarts,
           Split(words, s), NEW p, StartsBefore(p) = StartsBefore(s) \cup {s},
           NEW word \in Seq(Characters), word = SubSeq(line, s, WordEnd(s))
    PROVE Split(Append(words, word), p)
PROOF
<1> DEFINE n == Len(words)
           more == Append(words, word)
<1>1. PICK starts \in [1 .. n -> WordStarts] :
         AreStarts(starts, words) /\ Range(starts) = StartsBefore(s)
      BY DEF Split
<1> DEFINE all == [k \in 1 .. n + 1 |-> IF k = n + 1 THEN s ELSE starts[k]]
<1>2. /\ n \in Nat /\ Len(more) = n + 1 /\ more[n + 1] = word
      /\ \A k \in 1 .. n : more[k] = words[k]
      OBVIOUS
<1>3. s \in Nat /\ WordStarts \subseteq Nat
      BY DEF WordStarts
<1> HIDE DEF more
<1>4. all \in [1 .. n + 1 -> WordStarts]
      BY <1>2
<1>5. /\ all[n + 1] = s
      /\ \A k \in 1 .. n : all[k] = starts[k] /\ starts[k] \in Nat /\ starts[k] < s
  <2>1. ASSUME NEW k \in 1 .. n PROVE starts[k] < s /\ starts[k] \in Nat
    <3>1. starts[k] \in Range(starts)
          BY DEF Range
    <3>2. QED
          BY <1>1, <1>3, <3>1 DEF StartsBefore
  <2>2. all[n + 1] = s
        BY <1>2
  <2>3. \A k \in 1 .. n : all[k] = starts[k]
        BY <1>2
  <2>4. QED
        BY <2>1, <2>2, <2>3
<1>6. Range(all) = StartsBefore(p)
  <2>1. Range(starts) = {starts[k] : k \in 1 .. n}
        BY DEF Range
  <2>2. Range(all) = {all[k] : k \in 1 .. n + 1}
        BY <1>4 DEF Range
  <2>3. 1 .. n + 1 = (1 .. n) \cup {n + 1}
        BY <1>2
  <2> HIDE DEF all
  <2>4. Range(all) = Range(starts) \cup {s}
    <3>1. all[n + 1] = s /\ \A k \in 1 .. n : all[k] = starts[k]
          BY <1>5
    <3>2. ASSUME NEW x \in Range(all) PROVE x \in Range(starts) \cup {s}
      <4>1. PICK k \in 1 .. n + 1 : x = all[k]
            BY <2>2
      <4>2. k \in 1 .. n \/ k = n + 1
            BY <2>3
      <4>3. QED
            BY <2>1, <3>1, <4>1, <4>2
    <3>3. ASSUME NEW x \in Range(starts) \cup {s} PROVE x \in Range(all)
      <4>1. x = all[n + 1] \/ \E k \in 1 .. n : x = all[k]
            BY <2>1, <3>1
      <4>2. QED
            BY <2>2, <2>3, <4>1
    <3>4. QED
          BY <3>2, <3>3
  <2>5. QED
        BY <1>1, <2>4
<1> HIDE DEF all
<1>7. AreStarts(all, more)
  <2> SUFFICES ASSUME NEW k \in 1 .. n + 1
               PROVE /\ more[k] = SubSeq(line, all[k], WordEnd(all[k]))
                     /\ k > 1 => all[k - 1] < all[k]
      BY <1>2 DEF AreStarts
  <2>1. CASE k = n + 1
    <3>1. more[k] = SubSeq(line, all[k], WordEnd(all[k]))
          BY <1>2, <1>5, <2>1
    <3>2. k > 1 => all[k - 1] < all[k]
      <4>1. k > 1 => k - 1 \in 1 .. n
            BY <1>2, <2>1
      <4>2. QED
            BY <1>5, <2>1, <4>1
    <3>3. QED
          BY <3>1, <3>2
  <2>2. CASE k # n + 1
    <3>1. k \in 1 .. n /\ (k > 1 => k - 1 \in 1 .. n)
          BY <1>2, <2>2
    <3>2. words[k] = SubSeq(line, starts[k], WordEnd(starts[k])) /\ (k > 1 => starts[k - 1] < starts[k])
          BY <1>1, <3>1 DEF AreStarts
    <3>3. QED
          BY <1>2, <1>5, <3>1, <3>2
  <2>3. QED
        BY <2>1, <2>2
<1>8. QED
      BY <1>2, <1>4, <1>6, <1>7 DEF Split, more

LEMMA SplittingNext ==
    ASSUME Typed, Before, Splitting, [Next]_vars
    PROVE Splitting'
PROOF
<1> SUFFICES ASSUME Plain' PROVE Splitting'
    BY DEF Splitting
<1>1. /\ line \in Seq(Characters) /\ b \in Seq(Characters) /\ args \in Seq(Seq(Characters))
      /\ at \in 1 .. Len(line) + 1 /\ nslash \in Nat /\ Len(line) \in Nat
      BY DEF Typed, TypeOK
<1>2. line' = line
      BY DEF Next, SkipBlank, BeginArg, Return, EndArg, ReadBackslash, ReadEscapedQuote, ReadQuote,
        ReadOther, vars
<1>3. /\ Plain /\ ~inquote
      /\ pc # "within" => Split(args, at)
      /\ pc = "within" => \E s \in Nat : Word(s) /\ Split(args, s)
      /\ pc = "returned" => ~Left
      BY <1>2 DEF Plain, Splitting
<1>4. Left => at \in 1 .. Len(line) /\ Next1 # Quote
      BY <1>1, <1>3 DEF Left, Plain, Next1
<1>5. \A words, p : Split(words, p)' <=> Split(words, p)
      BY <1>2 DEF Split, AreStarts, WordStarts, IsBlank, WordEnd, StartsBefore
<1>6. WordStarts' = WordStarts /\ \A k : IsBlank(k)' <=> IsBlank(k)
      BY <1>2 DEF WordStarts, IsBlank
<1>7. CASE SkipBlank
  <2>1. /\ pc = "between" /\ pc' = "between" /\ args' = args /\ inquote' = inquote
        /\ at' = at + 1 /\ Left /\ line[at] = Blank
        BY <1>7 DEF SkipBlank, Shift, Next1
  <2>2. StartsBefore(at + 1) = StartsBefore(at)
        BY <1>1, <2>1 DEF StartsBefore, WordStarts, IsBlank
  <2>3. Split(args, at + 1)
        BY <1>3, <2>1, <2>2 DEF Split
  <2>4. QED
        BY <1>3, <1>5, <2>1, <2>3 DEF Splitting
<1>8. CASE BeginArg
  <2>1. /\ pc = "between" /\ pc' = "within" /\ args' = args /\ inquote' = FALSE
        /\ at' = at /\ Left /\ line[at] # Blank /\ b' = <<>> /\ nslash' = 0
        BY <1>8 DEF BeginArg, Next1
  <2>2. at \in WordStarts /\ at \in Nat
        BY <1>1, <1>4, <2>1 DEF WordStarts, IsBlank, Before
  <2>3. b' \o Slashes(nslash') = SubSeq(line, at, at - 1)
    <3>1. Slashes(0) = <<>> /\ SubSeq(line, at, at - 1) = <<>>
          BY <1>1, SlashesAre
    <3>2. <<>> \o <<>> = <<>>
          OBVIOUS
    <3>3. QED
          BY <2>1, <3>1, <3>2
  <2>4. at .. at - 1 = {}
        BY <1>1
  <2>5. Word(at)'
        BY <1>2, <1>6, <2>1, <2>2, <2>3, <2>4 DEF Word, Slashes
  <2>6. QED
        BY <1>3, <1>5, <2>1, <2>2, <2>5 DEF Splitting
<1>9. CASE Return
  <2>1. /\ pc = "between" /\ pc' = "returned" /\ args' = args /\ inquote' = inquote
        /\ at' = at /\ ~Left
        BY <1>9 DEF Return
  <2>2. QED
        BY <1>2, <1>3, <1>5, <2>1 DEF Splitting, Left
<1>10. CASE EndArg
  <2>1. /\ pc = "within" /\ pc' = "between" /\ inquote' = inquote
        /\ args' = Append(args, b \o Slashes(nslash))
        /\ at' = at + (IF Left THEN 1 ELSE 0) /\ (Left => line[at] = Blank)
        BY <1>10 DEF EndArg, Shift, Next1
  <2>2. PICK s \in Nat : Word(s) /\ Split(args, s)
        BY <1>3, <2>1
  <2>3. /\ s \in WordStarts /\ s <= at /\ \A k \in s .. at - 1 : ~IsBlank(k)
        /\ b \o Slashes(nslash) = SubSeq(line, s, at - 1)
        BY <2>2 DEF Word
  <2>4. s \in 1 .. Len(line) /\ ~IsBlank(s)
        BY <2>3 DEF WordStarts
  <2>5. s # at
        BY <1>1, <2>1, <2>4 DEF Left, IsBlank
  <2>6. at - 1 \in s .. Len(line) /\ (at - 1 = Len(line) \/ IsBlank((at - 1) + 1))
    <3>1. (at - 1) + 1 = at /\ at - 1 \in s .. Len(line)
          BY <1>1, <2>3, <2>4, <2>5
    <3>2. ~Left => at - 1 = Len(line)
          BY <1>1 DEF Left
    <3>3. Left => IsBlank(at)
          BY <2>1 DEF IsBlank
    <3>4. QED
          BY <3>1, <3>2, <3>3
  <2>7. WordEnd(s) = at - 1
        BY <1>1, <2>3, <2>4, <2>6, WordEnds
  <2>8. StartsBefore(at') = StartsBefore(s) \cup {s}
    <3>1. ASSUME NEW i \in WordStarts PROVE i < at' <=> i < s \/ i = s
      <4>1. i \in 1 .. Len(line) /\ ~IsBlank(i) /\ (i = 1 \/ IsBlank(i - 1))
            BY DEF WordStarts
      <4>2. s < at /\ at' \in {at, at + 1} /\ (at' = at + 1 => IsBlank(at))
            BY <1>1, <2>1, <2>3, <2>4, <2>5 DEF IsBlank
      <4>3. i < s \/ i = s => i < at'
            BY <1>1, <2>4, <4>1, <4>2
      <4>4. ASSUME s < i, i < at' PROVE FALSE
        <5>1. i # at \/ at' = at
              BY <4>1, <4>2
        <5>2. i <= at - 1
              BY <1>1, <4>1, <4>2, <4>4, <5>1
        <5>3. i - 1 \in s .. at - 1 /\ i # 1
              BY <1>1, <2>4, <4>1, <4>4, <5>2
        <5>4. QED
              BY <2>3, <4>1, <5>3
      <4>5. QED
            BY <2>4, <4>1, <4>3, <4>4
    <3>2. QED
          BY <2>3, <3>1 DEF StartsBefore
  <2>9. b \o Slashes(nslash) \in Seq(Characters)
    <3>1. Slashes(nslash) \in Seq(Characters)
          BY <1>1, SlashesAre
    <3>2. QED
          BY <1>1, <3>1
  <2>10. Split(args', at')
         BY <1>1, <2>1, <2>2, <2>3, <2>7, <2>8, <2>9, SplitMore
  <2>11. QED
         BY <1>3, <1>5, <2>1, <2>10 DEF Splitting
<1>11. ASSUME pc = "within", pc' = "within", args' = args, inquote' = inquote, at' = at + 1,
              Left, line[at] # Blank,
              b' \o Slashes(nslash') = (b \o Slashes(nslash)) \o <<line[at]>>
       PROVE Splitting'
  <2>1. PICK s \in Nat : Word(s) /\ Split(args, s)
        BY <1>3, <1>11
  <2>2. /\ s \in WordStarts /\ s <= at /\ \A k \in s .. at - 1 : ~IsBlank(k)
        /\ b \o Slashes(nslash) = SubSeq(line, s, at - 1)
        BY <2>1 DEF Word
  <2>3. at \in 1 .. Len(line) /\ s \in 1 .. at /\ (at + 1) - 1 = at
        BY <1>1, <1>4, <1>11, <2>2 DEF WordStarts
  <2>4. SubSeq(line, s, at) = SubSeq(line, s, at - 1) \o <<line[at]>>
        BY <1>1, <2>3, ReadOne
  <2>5. \A k \in s .. at : ~IsBlank(k)
    <3>1. \A k \in s .. at : k \in s .. at - 1 \/ k = at
          BY <2>3
    <3>2. QED
          BY <1>11, <2>2, <3>1 DEF IsBlank
  <2>6. b' \o Slashes(nslash') = SubSeq(line, s, at)
        BY <1>11, <2>2, <2>4
  <2>7. s <= at + 1
        BY <2>3
  <2>8. Word(s)'
        BY <1>2, <1>6, <1>11, <2>2, <2>3, <2>5, <2>6, <2>7 DEF Word, Slashes
  <2>9. QED
        BY <1>3, <1>5, <1>11, <2>1, <2>8 DEF Splitting
<1>12. CASE ReadBackslash
  <2>1. /\ pc = "within" /\ pc' = "within" /\ args' = args /\ inquote' = inquote /\ at' = at + 1
        /\ Left /\ line[at] = Backslash /\ b' = b /\ nslash' = nslash + 1
        BY <1>12 DEF ReadBackslash, Shift, Next1
  <2>2. b' \o Slashes(nslash') = (b \o Slashes(nslash)) \o <<line[at]>>
    <3>1. /\ Slashes(nslash + 1) = Slashes(nslash) \o <<Backslash>>
          /\ Slashes(nslash) \in Seq(Characters)
          BY <1>1, SlashesMore, SlashesAre
    <3>2. <<Backslash>> \in Seq(Characters)
          BY DEF Characters
    <3>3. b \o (Slashes(nslash) \o <<Backslash>>) = (b \o Slashes(nslash)) \o <<Backslash>>
          BY <1>1, <3>1, <3>2, Regrouped
    <3>4. QED
          BY <2>1, <3>1, <3>3
  <2>3. QED
        BY <1>11, <2>1, <2>2, CharactersAssumption
<1>13. CASE ReadOther
  <2>1. /\ pc = "within" /\ pc' = "within" /\ args' = args /\ inquote' = inquote /\ at' = at + 1
        /\ Left /\ b' = b \o Slashes(nslash) \o <<line[at]>> /\ nslash' = 0
        BY <1>13 DEF ReadOther, Shift, Next1
  <2>2. line[at] # Blank
        BY <1>3, <1>13, CharactersAssumption DEF ReadOther, Next1
  <2>3. b' \o Slashes(nslash') = b'
    <3>1. b' \in Seq(Characters)
      <4>1. Slashes(nslash) \in Seq(Characters) /\ line[at] \in Characters
            BY <1>1, <1>4, <2>1, SlashesAre
      <4>2. QED
            BY <1>1, <2>1, <4>1
    <3>2. Slashes(nslash') = <<>>
          BY <2>1, SlashesAre
    <3>3. QED
          BY <3>1, <3>2, ConcatEmptySeq
  <2>4. QED
        BY <1>11, <2>1, <2>2, <2>3
<1>14. ~ReadEscapedQuote /\ ~ReadQuote
       BY <1>4 DEF ReadEscapedQuote, ReadQuote
<1>15. CASE UNCHANGED vars
       BY <1>3, <1>5, <1>6, <1>15 DEF vars, Splitting, Word, Left, Slashes
<1>16. QED
       BY <1>7, <1>8, <1>9, <1>10, <1>12, <1>13, <1>14, <1>15 DEF Next

(* WordsWithoutQuotes of Argv: a line of any length without quotes is      *)
(* split into its words, each once and in its order.                       *)
THEOREM WordsAreKept == AnyLine => []WordsWithoutQuotes
PROOF
<1>1. line \in Seq(Characters) /\ Begins => Splitting
  <2> SUFFICES ASSUME line \in Seq(Characters), Begins PROVE Splitting
      OBVIOUS
  <2>1. at = 1 /\ pc = "between" /\ args = <<>> /\ ~inquote /\ Len(args) = 0
        BY DEF Begins
  <2>2. StartsBefore(1) = {}
        BY DEF StartsBefore, WordStarts
  <2> DEFINE none == [k \in 1 .. 0 |-> k]
  <2>3. none \in [1 .. 0 -> WordStarts] /\ Range(none) = {}
        BY DEF Range
  <2>4. AreStarts(none, args)
        BY <2>1 DEF AreStarts
  <2>5. Split(args, 1)
        BY <2>1, <2>2, <2>3, <2>4 DEF Split
  <2>6. QED
        BY <2>1, <2>5 DEF Splitting
<1>2. Typed /\ Splitting => WordsWithoutQuotes
  <2> SUFFICES ASSUME Typed, Splitting, pc = "returned", Plain
               PROVE \E starts \in [1 .. Len(args) -> WordStarts] :
                        AreStarts(starts, args) /\ Range(starts) = WordStarts
      BY DEF WordsWithoutQuotes, Plain
  <2>1. Split(args, at) /\ ~Left
        BY DEF Splitting
  <2>2. StartsBefore(at) = WordStarts
    <3>1. \A i \in WordStarts : i < at
          BY <2>1 DEF WordStarts, Left, Typed, TypeOK
    <3>2. QED
          BY <3>1 DEF StartsBefore
  <2>3. QED
        BY <2>1, <2>2 DEF Split
<1>3. Typed /\ Before /\ Splitting /\ [Next]_vars => Splitting'
      BY SplittingNext
<1>4. QED
      BY <1>1, <1>2, <1>3, BeforeHolds, TypesHold, PTL DEF AnyLine

-----------------------------------------------------------------------------
(* The lines and lists TLC begins with are among those the theorems are    *)
(* about, whatever the bounds.                                             *)
LEMMA StringsTyped ==
    ASSUME NEW S, NEW n \in Nat
    PROVE UNION {[1 .. k -> S] : k \in 0 .. n} \subseteq Seq(S)
PROOF OBVIOUS

THEOREM SpecIsAmongThem == Spec => AnyList
PROOF
<1>1. \A n \in Nat : Strings(n) \subseteq Seq(Characters)
      BY StringsTyped DEF Strings
<1>2. MaxLine \in Nat /\ MaxArg \in Nat /\ MaxArgs \in Nat
      BY BoundsAssumption
<1>3. Lists \subseteq Seq(Seq(Characters))
  <2>1. Lists \subseteq Seq(Strings(MaxArg))
        BY <1>2, StringsTyped DEF Lists
  <2>2. Seq(Strings(MaxArg)) \subseteq Seq(Seq(Characters))
        BY <1>1, <1>2
  <2>3. QED
        BY <2>1, <2>2
<1>4. Init => AnyMeaning /\ line \in Seq(Characters) /\ Begins
  <2> SUFFICES ASSUME Init PROVE AnyMeaning /\ line \in Seq(Characters)
      BY DEF Init
  <2>1. CASE meant = <<>> /\ line \in Strings(MaxLine)
        BY <1>1, <1>2, <2>1 DEF AnyMeaning
  <2>2. ASSUME NEW list \in Lists, meant = <<list>>, line = CommandLine(list)
        PROVE AnyMeaning /\ line \in Seq(Characters)
    <3>1. list \in Seq(Seq(Characters))
          BY <1>3
    <3>2. CommandLine(list) \in Seq(Characters)
          BY <3>1, BlocksTyped
    <3>3. QED
          BY <2>2, <3>1, <3>2 DEF AnyMeaning, MadeOf
  <2>3. QED
        BY <2>1, <2>2 DEF Init
<1>5. QED
      BY <1>4, PTL DEF Spec, AnyList, AnyLine
=============================================================================
