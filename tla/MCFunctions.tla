------------------------ MODULE MCFunctions ---------------------------------
(***************************************************************************)
(* The functions a query may call, each on a small instance: numbers, JSON, *)
(* dates, the resolution of a call, regular expressions.  A behaviour is   *)
(* of one part, whose variables are s1, s2 and so on in the order it       *)
(* declares them.                                                          *)
(***************************************************************************)
EXTENDS Integers, Sequences, FiniteSets, TLC

VARIABLES part, s1, s2, s3, s4, s5, s6, s7, s8, s9, s10, s11, s12, s13, s14

vars == <<part, s1, s2, s3, s4, s5, s6, s7, s8, s9, s10, s11, s12, s13, s14>>

\* Ranges that split others at the head, the tail and the middle, classes that cut across them.
Span(a, b) == [k |-> "range", from |-> a, to |-> b]
ColorItems == {Span(1, 3), Span(2, 4), Span(3, 3)}
              \cup [k : {"class"}, class : {"w", "d"}] \cup [k : {"not"}, class : {"w"}]
DfaStates == {"pre", "s", "1", "2", "3", "4", "post"}

\* The cases the modules themselves list.
N100Sets == INSTANCE Numeric WITH
  decDigits <- 2, maxInt <- 214748, maxInt64 <- 255, minSig <- 3, Calls <- {},
  call <- s1, work <- s2, out <- s3
Calls100 == N100Sets!Calls100

N10Sets == INSTANCE Numeric WITH
  decDigits <- 1, maxInt <- 300, maxInt64 <- 255, minSig <- 3, Calls <- {}, call <- s1,
  work <- s2, out <- s3
Calls10 == N10Sets!Calls10

TxtSets == INSTANCE JsonText WITH
  Texts <- {}, Raws <- {}, uHex <- 2, xHex <- 1, hexDigits <- 2, maxInt <- 127,
  maxDepth <- 2, input <- s1
JsonTexts == TxtSets!MCTexts
JsonRaws == TxtSets!MCRaws

BlbSets == INSTANCE Jsonb WITH
  inlineMax <- 2, byteBase <- 6, maxDepth <- 4, Docs <- {}, Values <- {}, Paths <- {},
  Patches <- {}, doc <- s1, edit <- s2
BlobDocs == BlbSets!MCDocs
BlobValues == BlbSets!MCValues
BlobPaths == BlbSets!MCPaths
BlobPatches == BlbSets!MCPatches

PgSets == INSTANCE PgJson WITH
  Texts <- {}, Keys <- <<>>, Elements <- {}, IndexOf <- <<>>, MaxPath <- 0, Edits <- 0,
  text <- s1, path <- s2, value <- s3, did <- s4, edits <- s5
PgTexts == PgSets!MCTexts

SqdSets == INSTANCE SqliteDate WITH
  TimeValues <- {}, Modifiers <- {}, MaxMods <- 0, Pairs <- {}, args <- s1, mods <- s2
TimeValues == SqdSets!MCTimeValues
Modifiers == SqdSets!MCModifiers
DatePairs == SqdSets!MCPairs

PgdSets == INSTANCE PgDate WITH
  Cases <- {}, EndTimestamp <- 0, t <- s1, left <- s2, zone <- s3, iv <- s4
ClockCases == PgdSets!MCCases
ClockEnd == PgdSets!MCEnd

FunSets == INSTANCE FunctionCall WITH
  Procs <- <<>>, Implemented <- {}, Category <- <<>>, ImplicitCasts <- {},
  Element <- <<>>, Reads <- <<>>, Calls <- {}, name <- s1, args <- s2, pc <- s3,
  cand <- s4, got <- s5, out <- s6
FunCalls == FunSets!MCCalls

CmpSets == INSTANCE RegexExec WITH
  Colors <- {"a", "n"}, Word <- {"a"}, NL <- "n", DUPINF <- 5, Programs <- {},
  Subjects <- {}, Starts <- {}, given <- s1
CompileRegexes == CmpSets!MCRegexes
CompileTexts == CmpSets!MCTexts

DfaSets == INSTANCE RegexDFA WITH
  Machines <- {}, Texts <- {}, States <- DfaStates, PRE <- "pre", POST <- "post",
  Colors <- {"a", "b", "c"}, Windows <- {}, MaxCalls <- 0, mach <- s1, text <- s2,
  cache <- s3, used <- s4, search <- s5, lastpost <- s6, lastnopr <- s7, call <- s8,
  pc <- s9, cp <- s10, css <- s11, kept <- s12, calls <- s13, answer <- s14
DfaMachines == DfaSets!MCMachines
DfaTexts == DfaSets!MCTexts
DfaWindows == DfaSets!MCWindows

ExeSets == INSTANCE RegexExec WITH
  Colors <- {"a", "b"}, Word <- {"a", "b"}, NL <- "n", DUPINF <- 5, Programs <- {},
  Subjects <- {}, Starts <- {}, given <- s1
ExecPrograms == ExeSets!MCPrograms
ExecSubjects == ExeSets!MCSubjects

LexSets == INSTANCE RegexLex WITH
  Patterns <- {}, FlagSets <- {}, Wrap <- 1024, ChrMax <- 510, given <- s1, flags <- s2
LexPatterns == LexSets!MCPatterns
LexFlags == LexSets!MCFlagSets

N100 == INSTANCE Numeric WITH
  decDigits <- 2, maxInt <- 214748, maxInt64 <- 255, minSig <- 3, Calls <- Calls100,
  call <- s1, work <- s2, out <- s3

N10 == INSTANCE Numeric WITH
  decDigits <- 1, maxInt <- 300, maxInt64 <- 255, minSig <- 3, Calls <- Calls10,
  call <- s1, work <- s2, out <- s3

Txt == INSTANCE JsonText WITH
  Texts <- JsonTexts, Raws <- JsonRaws, uHex <- 2, xHex <- 1, hexDigits <- 2,
  maxInt <- 127, maxDepth <- 2, input <- s1

Blb == INSTANCE Jsonb WITH
  inlineMax <- 2, byteBase <- 6, maxDepth <- 4, Docs <- BlobDocs, Values <- BlobValues,
  Paths <- BlobPaths, Patches <- BlobPatches, doc <- s1, edit <- s2

Pgj == INSTANCE PgJson WITH
  Texts <- PgTexts, Keys <- PgSets!MCKeys,
  Elements <- {"a", "0", "1", "9", "-1", "-9", "null"}, IndexOf <- PgSets!MCIndexOf,
  MaxPath <- 2, Edits <- 1, text <- s1, path <- s2, value <- s3, did <- s4, edits <- s5

Sqd == INSTANCE SqliteDate WITH
  TimeValues <- TimeValues, Modifiers <- Modifiers, MaxMods <- 2, Pairs <- DatePairs,
  args <- s1, mods <- s2

Pgd == INSTANCE PgDate WITH
  Cases <- ClockCases, EndTimestamp <- ClockEnd, t <- s1, left <- s2, zone <- s3,
  iv <- s4

Fun == INSTANCE FunctionCall WITH
  Procs <- FunSets!MCProcs, Implemented <- FunSets!MCImplemented,
  Category <- FunSets!MCCategory, ImplicitCasts <- FunSets!MCCasts,
  Element <- FunSets!MCElement, Reads <- FunSets!MCReads, Calls <- FunCalls,
  name <- s1, args <- s2, pc <- s3, cand <- s4, got <- s5, out <- s6

Col == INSTANCE RegexColor WITH
  MaxLow <- 1, MaxChr <- 5, Members <- [w |-> {1, 3, 4}, d |-> {0, 4, 5}],
  Items <- ColorItems, MaxColor <- 40, MaxAtoms <- 2, MaxParts <- 2, cm <- s1,
  arcs <- s2, atom <- s3, wants <- s4, parts <- s5, later <- s6

Cmp == INSTANCE RegexExec WITH
  Colors <- {"a", "n"}, Word <- {"a"}, NL <- "n", DUPINF <- 5,
  Programs <- CompileRegexes, Subjects <- CompileTexts, Starts <- {}, given <- s1

Dfa == INSTANCE RegexDFA WITH
  Machines <- DfaMachines, Texts <- DfaTexts, States <- DfaStates, PRE <- "pre",
  POST <- "post", Colors <- {"a", "b", "c"}, Windows <- DfaWindows, MaxCalls <- 2,
  mach <- s1, text <- s2, cache <- s3, used <- s4, search <- s5, lastpost <- s6,
  lastnopr <- s7, call <- s8, pc <- s9, cp <- s10, css <- s11, kept <- s12,
  calls <- s13, answer <- s14

Exe == INSTANCE RegexExec WITH
  Colors <- {"a", "b"}, Word <- {"a", "b"}, NL <- "n", DUPINF <- 5,
  Programs <- ExecPrograms, Subjects <- ExecSubjects, Starts <- {0, 1}, given <- s1

Lex == INSTANCE RegexLex WITH
  Patterns <- LexPatterns, FlagSets <- LexFlags, Wrap <- 1024, ChrMax <- 510,
  given <- s1, flags <- s2

\* The variables from one on, which a part with fewer does not use.
Free14 == s14 = "-"
Free13 == s13 = "-" /\ Free14
Free12 == s12 = "-" /\ Free13
Free11 == s11 = "-" /\ Free12
Free10 == s10 = "-" /\ Free11
Free9 == s9 = "-" /\ Free10
Free8 == s8 = "-" /\ Free9
Free7 == s7 = "-" /\ Free8
Free6 == s6 = "-" /\ Free7
Free5 == s5 = "-" /\ Free6
Free4 == s4 = "-" /\ Free5
Free3 == s3 = "-" /\ Free4
Free2 == s2 = "-" /\ Free3

Same7 == UNCHANGED <<s7, s8, s9, s10, s11, s12, s13, s14>>
Same6 == UNCHANGED <<s6, s7, s8, s9, s10, s11, s12, s13, s14>>
Same5 == UNCHANGED <<s5, s6, s7, s8, s9, s10, s11, s12, s13, s14>>
Same4 == UNCHANGED <<s4, s5, s6, s7, s8, s9, s10, s11, s12, s13, s14>>
Same3 == UNCHANGED <<s3, s4, s5, s6, s7, s8, s9, s10, s11, s12, s13, s14>>
Same2 == UNCHANGED <<s2, s3, s4, s5, s6, s7, s8, s9, s10, s11, s12, s13, s14>>

Init ==
  \/ part = "scaled" /\ N100!Init /\ Free4
  \/ part = "digits" /\ N10!Init /\ Free4
  \/ part = "text" /\ Txt!Init /\ Free2
  \/ part = "blob" /\ Blb!Init /\ Free3
  \/ part = "pgjson" /\ Pgj!Init /\ Free6
  \/ part = "date" /\ Sqd!Init /\ Free3
  \/ part = "clock" /\ Pgd!Init /\ Free5
  \/ part = "call" /\ Fun!Init /\ Free7
  \/ part = "color" /\ Col!Init /\ Free7
  \/ part = "compile" /\ Cmp!Init /\ Free2
  \/ part = "dfa" /\ Dfa!Init
  \/ part = "exec" /\ Exe!Init /\ Free2
  \/ part = "lex" /\ Lex!Init /\ Free3

ScaledStep == part = "scaled" /\ N100!Next /\ UNCHANGED part /\ Same4
DigitsStep == part = "digits" /\ N10!Next /\ UNCHANGED part /\ Same4
TextStep == part = "text" /\ Txt!Next /\ UNCHANGED part /\ Same2
BlobStep == part = "blob" /\ Blb!Next /\ UNCHANGED part /\ Same3
PgjsonStep == part = "pgjson" /\ Pgj!Next /\ UNCHANGED part /\ Same6
DateStep == part = "date" /\ Sqd!Next /\ UNCHANGED part /\ Same3
ClockStep == part = "clock" /\ Pgd!Next /\ UNCHANGED part /\ Same5
CallStep == part = "call" /\ Fun!Next /\ UNCHANGED part /\ Same7
ColorStep == part = "color" /\ Col!Next /\ UNCHANGED part /\ Same7
CompileStep == part = "compile" /\ Cmp!Next /\ UNCHANGED part /\ Same2
DfaStep == part = "dfa" /\ Dfa!Next /\ UNCHANGED part
ExecStep == part = "exec" /\ Exe!Next /\ UNCHANGED part /\ Same2
LexStep == part = "lex" /\ Lex!Next /\ UNCHANGED part /\ Same3

\* Every state may be left; it is then that what it computes is looked at.
Leave == part # "none" /\ part' = "none" /\ s1' = "-" /\ s2' = "-" /\ s3' = "-"
         /\ s4' = "-" /\ s5' = "-" /\ s6' = "-" /\ s7' = "-" /\ s8' = "-" /\ s9' = "-" /\ s10' = "-" /\ s11' = "-" /\ s12' = "-" /\ s13' = "-" /\ s14' = "-"

Next ==
  \/ ScaledStep
  \/ DigitsStep
  \/ TextStep
  \/ BlobStep
  \/ PgjsonStep
  \/ DateStep
  \/ ClockStep
  \/ CallStep
  \/ ColorStep
  \/ CompileStep
  \/ DfaStep
  \/ ExecStep
  \/ LexStep
  \/ Leave

Spec == Init /\ [][Next]_vars

-----------------------------------------------------------------------------
(***************************************************************************)
(* What the parts compute in the state they are in.                        *)
(***************************************************************************)
Numbers ==
  /\ part = "scaled" => /\ N100!Canonical /\ N100!SumsAreExact /\ N100!RoundingIsRight
                        /\ N100!ProductsAreRight /\ N100!QuotientsAreRight /\ N100!EnoughDigits
                        /\ N100!RemaindersAreRight /\ N100!IntegersAreRight /\ N100!RootsAreRight
                        /\ N100!TextIsRight /\ N100!LeastScale
  /\ part = "digits" => /\ N10!QuotientsAreRight /\ N10!RemaindersAreRight /\ N10!AccumulatorsFit
                        /\ N10!EstimatesAreClose /\ N10!CorrectionsAreFew

Json ==
  /\ part = "text" => Txt!TextIsRead
  /\ part = "blob" => Blb!EditsKeepTheBlob
  /\ part = "pgjson" => Pgj!NormalForm /\ Pgj!PathsAgree /\ Pgj!StripsAgree

Dates ==
  /\ part = "date" => Sqd!MomentsAreRight
  /\ part = "clock" => /\ Pgd!TruncStartsItsPart /\ Pgd!WallNamesInstant /\ Pgd!AbbrevPicks
                       /\ Pgd!ZoneTrunc /\ Pgd!IntervalTruncKeeps

Call ==
  /\ part = "call" => /\ Fun!NotDominated /\ Fun!OrderFree /\ Fun!CastsExist
                      /\ Fun!ArgsAsDeclared /\ Fun!LiteralsRead

Match ==
  /\ part = "lex" => Lex!PatternIsRead
  /\ part = "color" => Col!TypeOK /\ Col!AtomsKeepTheirCharacters /\ Col!ColorsAccounted
  /\ part = "compile" => Cmp!LanguageKept
  /\ part = "dfa" => /\ Dfa!AnswersTheNFA /\ Dfa!ColdIsLastIdle /\ Dfa!CacheIsTrue
                     /\ Dfa!AlwaysAVictim
  /\ part = "exec" => Exe!MatchFound

Steps ==
  /\ part = "pgjson" => Pgj!SetThenGet
  /\ part = "clock" => Pgd!PartsAdvance /\ Pgd!DaysFollow

\* pg_numeric.go computes what exact arithmetic gives, rounded once, in normal form, with no
\* accumulator past its width, whatever digits were estimated or carries deferred.
NumbersAreRight == [][Leave => Numbers]_vars

\* A JSON text is accepted exactly when the grammar has it and is rendered with its meaning, the
\* bytes of a JSONB value are its document after every edit, and jsonb's paths agree with json's.
JsonIsTheDocument == [][Leave => Json]_vars

\* A chain of modifiers reaches the moment the calendar gives, timediff's answer takes the one
\* date to the other, and date_trunc is the start of the part an instant lies in, in its zone.
DatesAreRight == [][Leave => Dates]_vars

\* A call runs the overload PostgreSQL's rules choose, whatever order the catalogue lists them
\* in, with arguments of the declared types that their input functions read.
CallIsResolved == [][Leave => Call]_vars

\* A regular expression keeps its language from its text to its match: the lexer reads each
\* flavour as defined, the colour map tells apart what an atom does, every rewriting of the NFA
\* keeps what it accepts, the lazy DFA answers as the NFA however its cache is evicted, and the
\* match is the leftmost, its captures a reading of the expression.
MatchIsRight == [][Leave => Match]_vars

\* What was set is what is got, and as a clock runs the parts of its date advance together.
StepsAgree == [][~Leave => Steps]_vars
=============================================================================
