-------------------------------- MODULE Argv --------------------------------
(***************************************************************************)
(* How a collector's parameters are split into arguments on Windows        *)
(* (src/helpers/argv_helper_windows.go): CommandLineToArgv and readNextArg *)
(* read the line from left to right, counting backslashes until they know  *)
(* whether a quote follows.  One action per case of the loops.             *)
(***************************************************************************)
EXTENDS Naturals, Sequences, SequencesExt

CONSTANTS
    Letters,        \* characters without a meaning of their own
    Blank,          \* a space or a tab
    Quote, Backslash,
    MaxLine,        \* bound: characters of an arbitrary line
    MaxArg, MaxArgs \* bounds: the arguments a quoted line is made of

ASSUME CharactersAssumption ==
    /\ Blank # Quote /\ Blank # Backslash /\ Quote # Backslash
    /\ {Blank, Quote, Backslash} \cap Letters = {}
ASSUME BoundsAssumption == {MaxLine, MaxArg, MaxArgs} \subseteq Nat

Characters == Letters \cup {Blank, Quote, Backslash}

VARIABLES
    line,       \* the parameters
    meant,      \* history: a list with the arguments the line was made of
    at,         \* the next character: cmd is what begins there
    pc,         \* CommandLineToArgv, readNextArg, or returned
    args,       \* the arguments so far
    b,          \* the one being read
    nslash,     \* backslashes not yet written to it
    inquote

vars == <<line, meant, at, pc, args, b, nslash, inquote>>

-----------------------------------------------------------------------------
(* How a line is written that means given arguments, independently of how  *)
(* it is read: every argument in quotes, a backslash before every quote in *)
(* it, and those that precede a quote doubled.                             *)
Slashes(n) == [i \in 1 .. n |-> Backslash]

(* There are n backslashes, and no more, right before place i of s.        *)
IsRun(s, i, n) ==
    /\ n < i /\ \A k \in i - n .. i - 1 : s[k] = Backslash
    /\ i - n = 1 \/ s[i - n - 1] # Backslash

Run(s, i) == CHOOSE n \in 0 .. i - 1 : IsRun(s, i, n)

Pieces(arg) ==
    [i \in 1 .. Len(arg) |->
        IF arg[i] = Quote THEN Slashes(Run(arg, i) + 1) \o <<Quote>> ELSE <<arg[i]>>]

Quoted(arg) ==
    <<Quote>> \o FlattenSeq(Pieces(arg)) \o Slashes(Run(arg, Len(arg) + 1)) \o <<Quote>>

Blocks(list) == [i \in 1 .. Len(list) |-> Quoted(list[i]) \o <<Blank>>]
CommandLine(list) == FlattenSeq(Blocks(list))

Strings(n) == UNION {[1 .. k -> Characters] : k \in 0 .. n}
Lists == UNION {[1 .. k -> Strings(MaxArg)] : k \in 0 .. MaxArgs}

Begins ==
    /\ at = 1 /\ pc = "between" /\ args = <<>>
    /\ b = <<>> /\ nslash = 0 /\ inquote = FALSE

Init ==
    /\ Begins
    /\ \/ \E list \in Lists : meant = <<list>> /\ line = CommandLine(list)
       \/ meant = <<>> /\ line \in Strings(MaxLine)

-----------------------------------------------------------------------------
Left == at <= Len(line)
Next1 == line[at]
Shift(n) == at' = at + n

(* CommandLineToArgv.                                                      *)
MutantSkipBlank ==              \* does not get on
    /\ pc = "between" /\ Left /\ Next1 = Blank
    /\ UNCHANGED vars

SkipBlank ==
    /\ pc = "between" /\ Left /\ Next1 = Blank
    /\ Shift(1)
    /\ UNCHANGED <<line, meant, pc, args, b, nslash, inquote>>

BeginArg ==
    /\ pc = "between" /\ Left /\ Next1 # Blank
    /\ pc' = "within"
    /\ b' = <<>> /\ nslash' = 0 /\ inquote' = FALSE
    /\ UNCHANGED <<line, meant, at, args>>

Return ==
    /\ pc = "between" /\ ~Left
    /\ pc' = "returned"
    /\ UNCHANGED <<line, meant, at, args, b, nslash, inquote>>

(* readNextArg.                                                            *)
MutantEndArg ==                 \* the backslashes at the end are dropped
    /\ pc = "within"
    /\ Left => Next1 = Blank /\ ~inquote
    /\ args' = Append(args, b)
    /\ Shift(IF Left THEN 1 ELSE 0)
    /\ pc' = "between"
    /\ UNCHANGED <<line, meant, b, nslash, inquote>>

MutantEndArgBeyond ==           \* one character too far at the end
    /\ pc = "within"
    /\ Left => Next1 = Blank /\ ~inquote
    /\ args' = Append(args, b \o Slashes(nslash))
    /\ Shift(1)
    /\ pc' = "between"
    /\ UNCHANGED <<line, meant, b, nslash, inquote>>

EndArg ==
    /\ pc = "within"
    /\ Left => Next1 = Blank /\ ~inquote
    /\ args' = Append(args, b \o Slashes(nslash))
    /\ Shift(IF Left THEN 1 ELSE 0)
    /\ pc' = "between"
    /\ UNCHANGED <<line, meant, b, nslash, inquote>>

ReadBackslash ==
    /\ pc = "within" /\ Left /\ Next1 = Backslash
    /\ nslash' = nslash + 1
    /\ Shift(1)
    /\ UNCHANGED <<line, meant, pc, args, b, inquote>>

ReadEscapedQuote ==
    /\ pc = "within" /\ Left /\ Next1 = Quote /\ nslash % 2 = 1
    /\ b' = b \o Slashes(nslash \div 2) \o <<Quote>>
    /\ nslash' = 0
    /\ Shift(1)
    /\ UNCHANGED <<line, meant, pc, args, inquote>>

MutantDoubled == inquote /\ at < Len(line)      \* whatever follows

(* Two quotes in a quoted part stand for one, which also ends that part.   *)
Doubled == inquote /\ at < Len(line) /\ line[at + 1] = Quote

MutantReadQuote ==              \* backslashes before a quote are not halved
    /\ pc = "within" /\ Left /\ Next1 = Quote /\ nslash % 2 = 0
    /\ b' = b \o Slashes(nslash) \o IF Doubled THEN <<Quote>> ELSE <<>>
    /\ nslash' = 0
    /\ inquote' = ~inquote
    /\ Shift(IF Doubled THEN 2 ELSE 1)
    /\ UNCHANGED <<line, meant, pc, args>>

ReadQuote ==
    /\ pc = "within" /\ Left /\ Next1 = Quote /\ nslash % 2 = 0
    /\ b' = b \o Slashes(nslash \div 2) \o IF Doubled THEN <<Quote>> ELSE <<>>
    /\ nslash' = 0
    /\ inquote' = ~inquote
    /\ Shift(IF Doubled THEN 2 ELSE 1)
    /\ UNCHANGED <<line, meant, pc, args>>

MutantReadOther ==              \* the count of backslashes goes on
    /\ pc = "within" /\ Left
    /\ Next1 \in Letters \/ (Next1 = Blank /\ inquote)
    /\ b' = b \o Slashes(nslash) \o <<Next1>>
    /\ Shift(1)
    /\ UNCHANGED <<line, meant, pc, args, nslash, inquote>>

ReadOther ==
    /\ pc = "within" /\ Left
    /\ Next1 \in Letters \/ (Next1 = Blank /\ inquote)
    /\ b' = b \o Slashes(nslash) \o <<Next1>>
    /\ nslash' = 0
    /\ Shift(1)
    /\ UNCHANGED <<line, meant, pc, args, inquote>>

Next ==
    \/ SkipBlank \/ BeginArg \/ Return
    \/ EndArg \/ ReadBackslash \/ ReadEscapedQuote \/ ReadQuote \/ ReadOther

Spec == Init /\ [][Next]_vars
FairSpec == Spec /\ WF_vars(Next)

-----------------------------------------------------------------------------
(* Properties.                                                             *)

(* Every variable has its type, and the line is not read beyond its end.   *)
TypeOK ==
    /\ at \in 1 .. Len(line) + 1
    /\ pc \in {"between", "within", "returned"}
    /\ args \in Seq(Seq(Characters)) /\ b \in Seq(Characters)
    /\ nslash \in Nat /\ inquote \in BOOLEAN

(* Within an argument, the count is that of all backslashes just read, and *)
(* none of them has been written: a quote decides over the whole run.      *)
CountsTheRun == pc = "within" => IsRun(line, at, nslash)

(* A line in which every argument is quoted by the Windows conventions is  *)
(* split into exactly those arguments, empty ones and ones that end in     *)
(* backslashes or are nothing but quotes included.                         *)
MeansWhatWasMeant == pc = "returned" /\ meant # <<>> => args = meant[1]

(* Without quotes, a line is split at its blanks, and nothing else happens *)
(* to it: backslashes are what they are.                                   *)
IsBlank(i) == line[i] = Blank
WordStarts == {i \in 1 .. Len(line) : ~IsBlank(i) /\ (i = 1 \/ IsBlank(i - 1))}
WordEnd(i) == CHOOSE j \in i .. Len(line) :
    /\ \A k \in i .. j : ~IsBlank(k)
    /\ j = Len(line) \/ IsBlank(j + 1)
(* The places in the line where given words begin, in order.               *)
AreStarts(starts, words) ==
    \A k \in 1 .. Len(words) :
        /\ words[k] = SubSeq(line, starts[k], WordEnd(starts[k]))
        /\ k > 1 => starts[k - 1] < starts[k]

WordsWithoutQuotes ==
    pc = "returned" /\ (\A i \in 1 .. Len(line) : line[i] # Quote) =>
        \E starts \in [1 .. Len(args) -> WordStarts] :
            AreStarts(starts, args) /\ Range(starts) = WordStarts

(* Whatever the quotes, no letter is lost, doubled or put out of order.    *)
OnlyLetters(s) ==
    FlattenSeq([i \in 1 .. Len(s) |-> IF s[i] \in Letters THEN <<s[i]>> ELSE <<>>])

LettersKept ==
    OnlyLetters(FlattenSeq(args) \o IF pc = "within" THEN b ELSE <<>>)
      = OnlyLetters(SubSeq(line, 1, at - 1))

(* Every line has been read to its end some time.                          *)
Terminates == <>(pc = "returned" /\ at = Len(line) + 1)
=============================================================================
