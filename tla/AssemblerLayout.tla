--------------------------- MODULE AssemblerLayout ---------------------------
(* The assembler gives every fragment of every section its offset and its    *)
(* size, where the sizes of branches and of encoded differences depend on    *)
(* offsets: it lays out and relaxes until everything fits                    *)
(* (lib/MC/MCAssembler.cpp, include/llvm/MC/MCAsmLayout.h). An offset is     *)
(* computed when it is first asked for.                                      *)
EXTENDS Integers, Sequences

CONSTANTS Programs,      \* what there is to be assembled
          ShortSize,     \* size of a branch that has not been relaxed
          LongSize,      \* and of one that has
          InReach(_),    \* the short branch can jump that far
          Width(_, _),   \* size of a difference in a code: ULEB128, SLEB128,
                         \* the advances of line tables and of call frames
          NoSymbol       \* what a branch to an undefined symbol jumps to

(* A program is the sequence of its fragments, section after section, and    *)
(* the option -mc-relax-all. A symbol is an offset into a fragment.          *)
IsSymbol(p, s) == s.fragment \in DOMAIN p.fragments /\ s.offset \in Nat
IsFragment(p, f) ==
  \/ f.kind = "data" /\ f.size \in Nat
  \/ f.kind = "align" /\ f.alignment \in Nat \ {0} /\ f.max \in Nat
  \/ f.kind = "org" /\ f.to \in Nat
  \/ f.kind = "branch" /\ (f.target = NoSymbol \/ IsSymbol(p, f.target))
  \/ /\ f.kind = "delta" /\ IsSymbol(p, f.from) /\ IsSymbol(p, f.to)
     /\ p.fragments[f.from.fragment].section = p.fragments[f.to.fragment].section
IsProgram(p) ==
  /\ DOMAIN p.fragments = 1..Len(p.fragments) /\ Len(p.fragments) \in Nat \ {0}
  /\ p.relaxAll \in BOOLEAN
  /\ \A i \in DOMAIN p.fragments :
       /\ IsFragment(p, p.fragments[i]) /\ p.fragments[i].section \in Nat \ {0}
       /\ \A j \in DOMAIN p.fragments :
            i <= j => p.fragments[i].section <= p.fragments[j].section
       /\ \A s \in 1..p.fragments[i].section :
            \E last \in DOMAIN p.fragments : \E first \in 1..last :
              {j \in DOMAIN p.fragments : p.fragments[j].section = s} = first..last

ASSUME AssemblerAssumption ==
  /\ \A p \in Programs : IsProgram(p)
  /\ ShortSize \in Nat /\ LongSize \in Nat /\ ShortSize # LongSize

VARIABLES
  program,
  encoded,       \* the size of the contents that each fragment has now
  offset,        \* MCFragment::Offset, of use only up to the last valid one
  lastValid,     \* LastValidFragment of each section, 0 without one
  section, at,   \* the section, and the fragment of it, that is scanned
  firstInvalid,  \* FirstInvalidFragment, 0 without one
  wasRelaxed,    \* WasRelaxed of layoutOnce
  pc

layout == <<offset, lastValid>>
scan == <<section, at, firstInvalid, wasRelaxed>>
vars == <<program, encoded, layout, scan, pc>>

Fragments == DOMAIN program.fragments
Fragment(i) == program.fragments[i]
Section(i) == Fragment(i).section
Sections == {Section(i) : i \in Fragments}
In(i, s) == i \in Fragments /\ Section(i) = s
First(s) == CHOOSE i \in Fragments : Section(i) = s /\ ~In(i - 1, s)
End(s) == CHOOSE i \in Fragments : Section(i) = s /\ ~In(i + 1, s)

FirstContents(f) ==
  CASE f.kind = "data" -> f.size
    [] f.kind = "branch" -> ShortSize
    [] f.kind = "delta" -> 1
    [] OTHER -> 0

Init ==
  /\ program \in Programs
  /\ encoded = [i \in Fragments |-> FirstContents(Fragment(i))]
  /\ offset = [i \in Fragments |-> 0]
  /\ lastValid = [s \in Sections |-> 0]
  /\ section = 1 /\ at = 1 /\ firstInvalid = 0 /\ wasRelaxed = FALSE
  /\ pc = "scan"
-----------------------------------------------------------------------------
(* computeFragmentSize. An alignment that takes too much is ignored.         *)
Padding(f, o) == LET n == (f.alignment - (o % f.alignment)) % f.alignment
                 IN IF n > f.max THEN 0 ELSE n
FragmentSize(i) ==
  CASE Fragment(i).kind = "align" -> Padding(Fragment(i), offset[i])
    [] Fragment(i).kind = "org" -> Fragment(i).to - offset[i]
    [] OTHER -> encoded[i]

(* "invalid .org offset" *)
InvalidOrg(i) == Fragment(i).kind = "org" /\ Fragment(i).to < offset[i]

isFragmentUpToDate(i) == i <= lastValid[Section(i)]

SymbolOffset(s) == offset[s.fragment] + s.offset

(* The fragments whose offsets are asked for when fragment i is scanned:     *)
(* by evaluateFixup, and in the evaluation of a difference.                  *)
Short(i) == Fragment(i).kind = "branch" /\ encoded[i] = ShortSize
Asked(i) ==
  CASE Short(i) /\ ~program.relaxAll ->
         {i} \cup IF Fragment(i).target = NoSymbol THEN {}
                  ELSE {Fragment(i).target.fragment}
    [] Fragment(i).kind = "delta" ->
         IF Fragment(i).from.fragment = Fragment(i).to.fragment THEN {}
         ELSE {Fragment(i).from.fragment, Fragment(i).to.fragment}
    [] OTHER -> {}

Scanning == pc = "scan" /\ In(at, section)
Wanted == IF Scanning THEN Asked(at)
          ELSE IF pc = "finish" THEN {End(s) : s \in Sections} ELSE {}
Ready == \A i \in Wanted : isFragmentUpToDate(i)

(* EnsureValid: one turn of its loop, LayoutFragment of the next fragment.   *)
AfterLastValid(s) == IF lastValid[s] = 0 THEN First(s) ELSE lastValid[s] + 1
LayoutFragment(s) ==
  LET i == AfterLastValid(s) IN
  /\ \E j \in Wanted : Section(j) = s /\ ~isFragmentUpToDate(j)
  /\ IF In(i - 1, s) /\ InvalidOrg(i - 1)
       THEN pc' = "error" /\ UNCHANGED layout
       ELSE /\ offset' = [offset EXCEPT ![i] =
                            IF In(i - 1, s) THEN offset[i - 1] + FragmentSize(i - 1)
                            ELSE 0]
            /\ lastValid' = [lastValid EXCEPT ![s] = i]
            /\ UNCHANGED pc
  /\ UNCHANGED <<program, encoded, scan>>
-----------------------------------------------------------------------------
(* fragmentNeedsRelaxation of a short branch.                                *)
NeedsRelaxation(i) ==
  LET t == Fragment(i).target IN
  \/ program.relaxAll \/ t = NoSymbol
  \/ Section(t.fragment) # Section(i)
  \/ ~InReach(SymbolOffset(t) - (offset[i] + ShortSize))

(* EvaluateAsAbsolute of a difference.                                       *)
Difference(from, to) ==
  IF from.fragment = to.fragment THEN to.offset - from.offset
  ELSE SymbolOffset(to) - SymbolOffset(from)

(* relaxInstruction; relaxLEB, relaxDwarfLineAddr,                           *)
(* relaxDwarfCallFrameFragment: the size that the fragment gets.             *)
Relaxed(i) ==
  CASE Short(i) -> IF NeedsRelaxation(i) THEN LongSize ELSE ShortSize
    [] Fragment(i).kind = "delta" ->
         Width(Fragment(i).code, Difference(Fragment(i).from, Fragment(i).to))
    [] OTHER -> encoded[i]

(* Mutant: the last fragment that was relaxed is remembered. *)
ScanKeepingLast ==
  /\ Scanning /\ Ready
  /\ encoded' = [encoded EXCEPT ![at] = Relaxed(at)]
  /\ firstInvalid' = IF Relaxed(at) # encoded[at] THEN at ELSE firstInvalid
  /\ at' = at + 1
  /\ UNCHANGED <<program, layout, section, wasRelaxed, pc>>

(* Mutant: whatever has been encoded counts as relaxed. *)
ScanCountingAll ==
  /\ Scanning /\ Ready
  /\ encoded' = [encoded EXCEPT ![at] = Relaxed(at)]
  /\ firstInvalid' = IF firstInvalid = 0
                        /\ (Relaxed(at) # encoded[at] \/ Fragment(at).kind = "delta")
                       THEN at ELSE firstInvalid
  /\ at' = at + 1
  /\ UNCHANGED <<program, layout, section, wasRelaxed, pc>>

(* layoutSectionOnce: one turn of its loop.                                  *)
Scan ==
  /\ Scanning /\ Ready
  /\ encoded' = [encoded EXCEPT ![at] = Relaxed(at)]
  /\ firstInvalid' = IF Relaxed(at) # encoded[at] /\ firstInvalid = 0
                       THEN at ELSE firstInvalid
  /\ at' = at + 1
  /\ UNCHANGED <<program, layout, section, wasRelaxed, pc>>

(* Its end, when something was relaxed: Invalidate, and layoutOnce calls it  *)
(* again.                                                                    *)
RepeatSection ==
  /\ pc = "scan" /\ section \in Sections /\ ~In(at, section)
  /\ firstInvalid # 0
  /\ lastValid' = IF isFragmentUpToDate(firstInvalid)
                    THEN [lastValid EXCEPT ![section] = firstInvalid]
                    ELSE lastValid
  /\ wasRelaxed' = TRUE /\ firstInvalid' = 0 /\ at' = First(section)
  /\ UNCHANGED <<program, encoded, offset, section, pc>>

(* Mutant: only the last section counts. *)
NextSectionForgetting ==
  /\ pc = "scan" /\ section \in Sections /\ ~In(at, section)
  /\ firstInvalid = 0
  /\ section' = section + 1 /\ wasRelaxed' = FALSE
  /\ UNCHANGED <<program, encoded, layout, at, firstInvalid, pc>>

(* Its end, when nothing was.                                                *)
NextSection ==
  /\ pc = "scan" /\ section \in Sections /\ ~In(at, section)
  /\ firstInvalid = 0
  /\ section' = section + 1
  /\ UNCHANGED <<program, encoded, layout, at, firstInvalid, wasRelaxed, pc>>

(* The end of layoutOnce, which Finish repeats while anything was relaxed.   *)
EndPass ==
  /\ pc = "scan" /\ section \notin Sections
  /\ IF wasRelaxed
       THEN section' = 1 /\ at' = 1 /\ wasRelaxed' = FALSE /\ UNCHANGED pc
       ELSE pc' = "finish" /\ UNCHANGED <<section, at, wasRelaxed>>
  /\ UNCHANGED <<program, encoded, layout, firstInvalid>>

(* finishLayout has laid out the rest, and the sections are written.         *)
Write ==
  /\ pc = "finish" /\ Ready
  /\ pc' = IF \E i \in Fragments : InvalidOrg(i) THEN "error" ELSE "written"
  /\ UNCHANGED <<program, encoded, layout, scan>>

Next == \/ \E s \in Sections : LayoutFragment(s)
        \/ Scan \/ RepeatSection \/ NextSection \/ EndPass \/ Write

Spec == Init /\ [][Next]_vars
FairSpec == Spec /\ WF_vars(Next)
-----------------------------------------------------------------------------
(* The variables have their types.                                           *)
TypeOK ==
  /\ program \in Programs
  /\ DOMAIN encoded = Fragments /\ DOMAIN offset = Fragments
  /\ lastValid \in [Sections -> Fragments \cup {0}]
  /\ \A s \in Sections : lastValid[s] # 0 => Section(lastValid[s]) = s
  /\ section \in Nat \ {0} /\ at \in Nat \ {0}
  /\ firstInvalid # 0 => In(firstInvalid, section) /\ firstInvalid < at
  /\ wasRelaxed \in BOOLEAN /\ pc \in {"scan", "finish", "written", "error"}

Follows(i) == IF In(i - 1, Section(i))
                THEN offset[i] = offset[i - 1] + FragmentSize(i - 1)
                ELSE offset[i] = 0

(* "All fragments with a lower ordinal will be up to date": each fragment up *)
(* to the last valid one begins where the one before it ends now, although   *)
(* sizes change behind the back of the layout; while a section is scanned,   *)
(* this holds up to the first fragment that will be invalidated.             *)
OffsetsAreCurrent ==
  \A i \in Fragments :
    isFragmentUpToDate(i) /\ (Section(i) = section /\ firstInvalid # 0
                              => i <= firstInvalid)
    => Follows(i)

Fits(i) == /\ \A j \in Asked(i) : isFragmentUpToDate(j)
           /\ Relaxed(i) = encoded[i]

(* "Layout until everything fits": what is written has its fragments one     *)
(* behind the other, no branch is too short for its distance, and every      *)
(* difference is encoded in as many bytes as its final value takes.          *)
EverythingFits ==
  pc = "written" => \A i \in Fragments : isFragmentUpToDate(i) /\ Follows(i)
                                         /\ Fits(i)

(* Whether a difference measures across an alignment or an origin, which      *)
(* take up what the fragments before them grow by.                           *)
MeasuresPadding(i) ==
  /\ Fragment(i).kind = "delta"
  /\ \E j \in Fragments : /\ Fragment(j).kind \in {"align", "org"}
                          /\ \/ Fragment(i).from.fragment <= j /\ j < Fragment(i).to.fragment
                             \/ Fragment(i).to.fragment <= j /\ j < Fragment(i).from.fragment
Shrinks(i) == encoded'[i] < encoded[i]

(* "Layout until everything fits" ends, in whatever order sizes depend on    *)
(* each other, unless a difference that measures padding keeps growing and   *)
(* shrinking: nothing else makes a fragment smaller again and again.         *)
LayoutEnds ==
  \/ <>(pc \in {"written", "error"})
  \/ []<><<\E i \in Fragments : MeasuresPadding(i) /\ Shrinks(i)>>_vars
=============================================================================
