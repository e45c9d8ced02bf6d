------------------------------ MODULE NukSplit ------------------------------
(***************************************************************************)
(* How the master eNB chooses the way of a downlink SDU of the data bearer *)
(* (lcid 3) in srsenb::rlc: decide_path, called by write_sdu on the stack  *)
(* thread, and the setters that the operator's commands run on the stdin   *)
(* thread.  Neither side locks the members they share, so their accesses   *)
(* interleave: decide_path takes one step per test it makes, a setter one  *)
(* step per assignment.                                                    *)
(***************************************************************************)
EXTENDS Integers, Sequences, FiniteSets

CONSTANTS
    U8,               \* number of values of a uint8_t
    RATIOS,           \* numbers the operator may enter for a ratio
    NUK_JIN_DEBUG,    \* compile-time switch; false in the repository
    MAX_RECENT        \* bound on the remembered paths, for model checking

ASSUME SplitAssumption ==
    U8 \in Nat \ {0, 1} /\ RATIOS \subseteq Nat /\ NUK_JIN_DEBUG \in BOOLEAN /\ MAX_RECENT \in Nat

VARIABLES
    rlc,       \* the members of rlc that both threads use
    pc,        \* where decide_path is, "idle" if not called
    count,     \* split_count as read by split_count++
    path,      \* what decide_path returned, 0 while it is undecided
    todo,      \* assignments that the command being run has still to make
    fresh,     \* has no command run since decide_path was called
    recent     \* paths of the latest SDUs that no command was in the way of

splitVars == <<rlc, pc, count, path, todo, fresh, recent>>

ToMeNB     == 1
ToSeNB     == 2
Duplicated == 3
Unknown    == -1

SplitInit ==
    /\ rlc = [split_mode |-> FALSE, duplication_mode |-> FALSE,
              ratio_MeNB |-> 1, ratio_SeNB |-> 0, split_count |-> 0]
    /\ pc = "idle" /\ count = 0 /\ path = 0
    /\ todo = << >>
    /\ fresh = FALSE /\ recent = << >>

-----------------------------------------------------------------------------
(***************************************************************************)
(* The commands of the stdin thread, as the assignments they make.  A      *)
(* ratio is entered as a uint16_t and passed as a uint8_t.                 *)
(***************************************************************************)
Set(member, value) == <<[member |-> member, value |-> value]>>

SetSplitRatio(m, s) ==
    IF m % U8 = 0 /\ s % U8 = 0
    THEN Set("ratio_MeNB", 1) \o Set("ratio_SeNB", 0)
    ELSE Set("ratio_MeNB", m % U8) \o Set("ratio_SeNB", s % U8) \o Set("split_count", 0)

SetSplitMode ==
    IF rlc.split_mode
    THEN Set("split_mode", FALSE)
    ELSE Set("split_mode", TRUE) \o Set("duplication_mode", FALSE)
           \o Set("split_count", 0) \o SetSplitRatio(1, 0)

SetDuplicationMode ==
    Set("duplication_mode", ~rlc.duplication_mode)
      \o IF NUK_JIN_DEBUG /\ ~rlc.duplication_mode THEN Set("split_mode", FALSE) ELSE << >>

Command ==
    /\ todo = << >>
    /\ \/ todo' = SetSplitMode
       \/ todo' = SetDuplicationMode
       \/ \E m, s \in RATIOS : todo' = SetSplitRatio(m, s)
    /\ fresh' = FALSE
    /\ recent' = << >>
    /\ UNCHANGED <<rlc, pc, count, path>>

Assign ==
    /\ todo # << >>
    /\ rlc' = [rlc EXCEPT ![Head(todo).member] = Head(todo).value]
    /\ todo' = Tail(todo)
    /\ UNCHANGED <<pc, count, path, fresh, recent>>

-----------------------------------------------------------------------------
(***************************************************************************)
(* decide_path.  Its first five tests return early.                        *)
(***************************************************************************)
\* Mutant: split mode, when on, goes first.
DuplicatesUnlessSplit == rlc.duplication_mode /\ ~rlc.split_mode

Duplicates == rlc.duplication_mode

EarlyReturns ==
    LET M == rlc.ratio_MeNB
        S == rlc.ratio_SeNB
    IN  [ duplication |-> [holds |-> Duplicates,           path |-> Duplicated, next |-> "split"],
          split       |-> [holds |-> ~rlc.split_mode,      path |-> ToMeNB,  next |-> "only_SeNB"],
          only_SeNB   |-> [holds |-> M = 0 /\ S # 0,       path |-> ToSeNB,  next |-> "only_MeNB"],
          only_MeNB   |-> [holds |-> S = 0 /\ M # 0,       path |-> ToMeNB,  next |-> "error"],
          error       |-> [holds |-> M = 0 /\ S = 0,       path |-> Unknown, next |-> "cycle"] ]

Latest(s) == SubSeq(s, IF Len(s) > MAX_RECENT THEN 2 ELSE 1, Len(s))

Return(p) ==
    /\ pc' = "idle"
    /\ path' = p
    /\ recent' = IF fresh THEN Latest(Append(recent, p)) ELSE recent

DecidePath ==
    /\ pc = "idle"
    /\ pc' = "duplication"
    /\ path' = 0
    /\ fresh' = (todo = << >>)
    /\ UNCHANGED <<rlc, count, todo, recent>>

Test ==
    /\ pc \in DOMAIN EarlyReturns
    /\ IF EarlyReturns[pc].holds
       THEN Return(EarlyReturns[pc].path)
       ELSE pc' = EarlyReturns[pc].next /\ UNCHANGED <<path, recent>>
    /\ UNCHANGED <<rlc, count, todo, fresh>>

\* Mutant: the cycle is one SDU longer.
CycleOverStrict == rlc.split_count > rlc.ratio_MeNB + rlc.ratio_SeNB

CycleOver == rlc.split_count >= rlc.ratio_MeNB + rlc.ratio_SeNB

CheckCycle ==
    /\ pc = "cycle"
    /\ rlc' = IF CycleOver THEN [rlc EXCEPT !.split_count = 0] ELSE rlc
    /\ pc' = "compare"
    /\ UNCHANGED <<count, path, todo, fresh, recent>>

Compare ==
    /\ pc = "compare"
    /\ path' = IF rlc.split_count < rlc.ratio_MeNB THEN ToMeNB ELSE ToSeNB
    /\ pc' = "read"
    /\ UNCHANGED <<rlc, count, todo, fresh, recent>>

ReadCount ==
    /\ pc = "read"
    /\ count' = rlc.split_count
    /\ pc' = "write"
    /\ UNCHANGED <<rlc, path, todo, fresh, recent>>

\* Mutant: split_count is as wide as it needs to be.
IncrementedNoWrap == count + 1

Incremented == (count + 1) % U8

WriteCount ==
    /\ pc = "write"
    /\ rlc' = [rlc EXCEPT !.split_count = Incremented]
    /\ Return(path)
    /\ UNCHANGED <<count, todo, fresh>>

SplitNext ==
    \/ Command
    \/ Assign
    \/ DecidePath
    \/ Test
    \/ CheckCycle
    \/ Compare
    \/ ReadCount
    \/ WriteCount

SplitSpec == SplitInit /\ [][SplitNext]_splitVars

-----------------------------------------------------------------------------
(***************************************************************************)
(* Every variable keeps its type.                                          *)
(***************************************************************************)
SplitTypeOK ==
    /\ rlc \in [split_mode : BOOLEAN, duplication_mode : BOOLEAN, ratio_MeNB : 0 .. U8 - 1,
                ratio_SeNB : 0 .. U8 - 1, split_count : 0 .. U8 - 1]
    /\ pc \in DOMAIN EarlyReturns \cup {"idle", "cycle", "compare", "read", "write"}
    /\ count \in 0 .. U8 - 1
    /\ path \in {0, ToMeNB, ToSeNB, Duplicated, Unknown}
    /\ fresh \in BOOLEAN

(***************************************************************************)
(* "Check if count value up to one cycle" (decide_path): while the         *)
(* settings stay, any M + S consecutive SDUs contain exactly M that went   *)
(* to the master, whatever the unlocked accesses of earlier commands left  *)
(* in split_count.  This needs M + S <= U8: beyond that, split_count wraps *)
(* before the cycle is over, and the slave gets less than its share.       *)
(***************************************************************************)
RatioKept ==
    LET M == rlc.ratio_MeNB
        S == rlc.ratio_SeNB
    IN  rlc.split_mode /\ ~rlc.duplication_mode /\ M + S <= U8 =>
          \A i \in 0 .. Len(recent) - (M + S) :
              Cardinality({ j \in 1 .. M + S : recent[i + j] = ToMeNB }) = M

(***************************************************************************)
(* "Duplication", "Split to SeNB", "Split to MeNB" (decide_path): once a   *)
(* command has ended, every later SDU follows the modes it left, although  *)
(* the modes and ratios it passed through on the way could be seen.        *)
(***************************************************************************)
SettingsObeyed ==
    \A i \in DOMAIN recent :
        /\ recent[i] = Duplicated <=> rlc.duplication_mode
        /\ ~rlc.duplication_mode /\ ~rlc.split_mode => recent[i] = ToMeNB
        /\ recent[i] # Unknown

(***************************************************************************)
(* "The ratio of eNBs all are 0 !" / "Force set ratio" (set_split_ratio):  *)
(* the ratios are never both 0, so decide_path never fails and write_sdu   *)
(* never drops an SDU as "RLC decide path unknown".                        *)
(***************************************************************************)
PathKnown == path # Unknown
=============================================================================
