------------------------ MODULE AssemblerLayoutProofs ------------------------
(* What lib/MC/MCAssembler.cpp writes fits, for every program.               *)
EXTENDS AssemblerLayout, TLAPS

(* The fragments before "at" have been scanned, and those from it on belong  *)
(* to this section or to a later one.                                        *)
ScanPosition ==
  pc \in {"scan", "finish", "written"} =>
    \A j \in Fragments : (j < at => Section(j) <= section)
                         /\ (j >= at => Section(j) >= section)

(* What this pass has scanned fits, unless it has relaxed something.         *)
ScannedFits ==
  pc = "scan" /\ ~wasRelaxed /\ firstInvalid = 0 =>
    \A j \in Fragments : j < at => Fits(j)

(* After the last pass everything does, and what is written is laid out.     *)
FinishedFits ==
  pc \in {"finish", "written"} =>
    firstInvalid = 0 /\ \A j \in Fragments : Fits(j)
AllLaidOut == pc = "written" => \A j \in Fragments : isFragmentUpToDate(j)

IInv == TypeOK /\ OffsetsAreCurrent /\ ScanPosition /\ ScannedFits
        /\ FinishedFits /\ AllLaidOut
-----------------------------------------------------------------------------
(* A program: its sections follow each other, and each is one interval.      *)
LEMMA ProgramFacts ==
  ASSUME program \in Programs
  PROVE  /\ Fragments = 1..Len(program.fragments)
         /\ Len(program.fragments) \in Nat \ {0}
         /\ \A i \in Fragments :
              /\ Section(i) \in Nat \ {0}
              /\ \A j \in Fragments : i <= j => Section(i) <= Section(j)
              /\ \A s \in 1..Section(i) : s \in Sections
         /\ \A s \in Sections :
              /\ s \in Nat \ {0}
              /\ \E last \in Fragments : \E first \in 1..last :
                   \A j \in Fragments : Section(j) = s <=> j \in first..last
<1>1. IsProgram(program)
  BY AssemblerAssumption
<1> DEFINE frs == program.fragments
<1>2. /\ DOMAIN frs = 1..Len(frs) /\ Len(frs) \in Nat \ {0}
      /\ \A i \in DOMAIN frs :
           /\ frs[i].section \in Nat \ {0}
           /\ \A j \in DOMAIN frs : i <= j => frs[i].section <= frs[j].section
           /\ \A s \in 1..frs[i].section :
                \E last \in DOMAIN frs : \E first \in 1..last :
                  {j \in DOMAIN frs : frs[j].section = s} = first..last
  BY <1>1 DEF IsProgram
<1>3. Fragments = DOMAIN frs /\ \A i : Section(i) = frs[i].section
  BY DEF Fragments, Section, Fragment
<1> HIDE DEF frs
<1>4. ASSUME NEW i \in Fragments, NEW s \in 1..Section(i)
      PROVE  /\ s \in Sections
             /\ \E last \in Fragments : \E first \in 1..last :
                  \A j \in Fragments : Section(j) = s <=> j \in first..last
  <2>1. PICK last \in DOMAIN frs : \E first \in 1..last :
               {j \in DOMAIN frs : frs[j].section = s} = first..last
    BY <1>2, <1>3
  <2>2. PICK first \in 1..last :
               {j \in DOMAIN frs : frs[j].section = s} = first..last
    BY <2>1
  <2>3. last \in first..last /\ first \in Nat /\ last \in Nat
    BY <1>2
  <2>4. frs[last].section = s
    BY <2>2, <2>3
  <2>5. s \in Sections
    BY <2>4, <1>3 DEF Sections
  <2> QED BY <2>2, <2>5, <1>3
<1>5. ASSUME NEW s \in Sections
      PROVE  \E i \in Fragments : s = Section(i) /\ s \in 1..Section(i)
  BY <1>2, <1>3 DEF Sections
<1>6. \A i \in Fragments :
        /\ Section(i) \in Nat \ {0}
        /\ \A j \in Fragments : i <= j => Section(i) <= Section(j)
        /\ \A s \in 1..Section(i) : s \in Sections
  BY <1>2, <1>3, <1>4
<1>7. \A s \in Sections :
        /\ s \in Nat \ {0}
        /\ \E last \in Fragments : \E first \in 1..last :
             \A j \in Fragments : Section(j) = s <=> j \in first..last
  BY <1>4, <1>5, <1>6
<1>8. Fragments = 1..Len(frs) /\ Len(frs) \in Nat \ {0}
  BY <1>2, <1>3
<1> QED BY <1>6, <1>7, <1>8 DEF frs

(* A section's first fragment and its last one are what their names say.     *)
LEMMA FirstAndEnd ==
  ASSUME program \in Programs, NEW s \in Sections
  PROVE  /\ First(s) \in Fragments /\ Section(First(s)) = s
         /\ End(s) \in Fragments /\ Section(End(s)) = s
         /\ \A j \in Fragments : Section(j) = s => First(s) <= j /\ j <= End(s)
<1>1. PICK last \in Fragments : \E first \in 1..last :
             \A j \in Fragments : Section(j) = s <=> j \in first..last
  BY ProgramFacts
<1>2. PICK first \in 1..last :
             \A j \in Fragments : Section(j) = s <=> j \in first..last
  BY <1>1
<1>3. Fragments = 1..Len(program.fragments) /\ Len(program.fragments) \in Nat
  BY ProgramFacts
<1>4. first \in Fragments /\ Section(first) = s /\ ~In(first - 1, s)
  BY <1>2, <1>3 DEF In
<1>5. last \in Fragments /\ Section(last) = s /\ ~In(last + 1, s)
  BY <1>2, <1>3 DEF In
<1>6. First(s) \in Fragments /\ Section(First(s)) = s /\ ~In(First(s) - 1, s)
  BY <1>4 DEF First
<1>7. End(s) \in Fragments /\ Section(End(s)) = s /\ ~In(End(s) + 1, s)
  BY <1>5 DEF End
<1>8. First(s) = first
  BY <1>2, <1>3, <1>6 DEF In
<1>9. End(s) = last
  BY <1>2, <1>3, <1>7 DEF In
<1> QED BY <1>2, <1>3, <1>6, <1>7, <1>8, <1>9
-----------------------------------------------------------------------------
(* The next fragment that is laid out belongs to the section.                *)
LEMMA NextLaidOut ==
  ASSUME TypeOK, NEW s \in Sections,
         NEW j \in Wanted, Section(j) = s, j \in Fragments,
         ~isFragmentUpToDate(j)
  PROVE  /\ AfterLastValid(s) \in Fragments /\ Section(AfterLastValid(s)) = s
         /\ lastValid[s] < AfterLastValid(s)
         /\ \A i \in Fragments : Section(i) = s /\ lastValid[s] < i
                                  => AfterLastValid(s) <= i
<1>1. /\ program \in Programs
      /\ Fragments = 1..Len(program.fragments)
      /\ Len(program.fragments) \in Nat \ {0}
      /\ lastValid[s] \in Fragments \cup {0}
      /\ lastValid[s] # 0 => Section(lastValid[s]) = s
      /\ \A i \in Fragments : Section(i) \in Nat /\
           \A k \in Fragments : i <= k => Section(i) <= Section(k)
      /\ s \in Nat
  BY ProgramFacts DEF TypeOK
<1>2. CASE lastValid[s] = 0
  BY <1>1, <1>2, FirstAndEnd DEF AfterLastValid
<1>3. CASE lastValid[s] # 0
  <2>1. lastValid[s] < j
    BY <1>1, <1>3 DEF isFragmentUpToDate
  <2>2. AfterLastValid(s) = lastValid[s] + 1
    BY <1>3 DEF AfterLastValid
  <2>3. AfterLastValid(s) \in Fragments /\ AfterLastValid(s) <= j
    BY <1>1, <1>3, <2>1, <2>2
  <2>4. Section(AfterLastValid(s)) = s
    <3>1. Section(lastValid[s]) <= Section(AfterLastValid(s))
      BY <1>1, <1>3, <2>2, <2>3
    <3>2. Section(AfterLastValid(s)) <= Section(j)
      BY <1>1, <2>3
    <3> QED BY <1>1, <1>3, <2>3, <3>1, <3>2
  <2> QED BY <1>1, <1>3, <2>2, <2>3, <2>4
<1> QED BY <1>2, <1>3

(* Whose offsets are asked for has a place in the program.                   *)
LEMMA AskedAreFragments ==
  ASSUME program \in Programs, NEW i \in Fragments
  PROVE  Asked(i) \subseteq Fragments
<1>1. IsFragment(program, Fragment(i))
  BY AssemblerAssumption DEF IsProgram, Fragments, Fragment
<1> QED BY <1>1 DEF Asked, Short, IsFragment, IsSymbol, Fragments

LEMMA WantedAreFragments ==
  ASSUME TypeOK
  PROVE  Wanted \subseteq Fragments
BY FirstAndEnd, AskedAreFragments DEF TypeOK, Wanted, Scanning, In
-----------------------------------------------------------------------------
LEMMA InitInvariant == Init => IInv
<1> SUFFICES ASSUME Init PROVE IInv
  OBVIOUS
<1>1. /\ program \in Programs
      /\ Fragments = 1..Len(program.fragments)
      /\ Len(program.fragments) \in Nat \ {0}
      /\ \A j \in Fragments : Section(j) \in Nat \ {0}
  BY ProgramFacts DEF Init
<1>2. TypeOK
  <2>1. wasRelaxed \in BOOLEAN
    BY Zenon DEF Init
  <2> QED BY <1>1, <2>1 DEF Init, TypeOK
<1>3. \A i \in Fragments : ~isFragmentUpToDate(i)
  BY <1>1 DEF Init, isFragmentUpToDate, Sections
<1>4. OffsetsAreCurrent
  BY <1>3 DEF OffsetsAreCurrent
<1> QED BY <1>1, <1>2, <1>4
        DEF IInv, Init, ScanPosition, ScannedFits, FinishedFits, AllLaidOut

(* When no section is left to be scanned, all of the fragments have been.    *)
LEMMA AllScanned ==
  ASSUME TypeOK, ScanPosition, pc = "scan", section \notin Sections
  PROVE  firstInvalid = 0 /\ \A j \in Fragments : j < at
<1>1. firstInvalid = 0
  BY DEF TypeOK, In, Sections
<1>2. ASSUME NEW j \in Fragments, ~(j < at) PROVE FALSE
  <2>1. Section(j) >= section
    BY <1>2, ProgramFacts DEF TypeOK, ScanPosition
  <2>2. section \in 1..Section(j)
    BY <2>1, ProgramFacts DEF TypeOK
  <2> QED BY <2>2, ProgramFacts DEF TypeOK
<1> QED BY <1>1, <1>2

LEMMA TypeStep == TypeOK /\ ScanPosition /\ [Next]_vars => TypeOK'
<1> SUFFICES ASSUME TypeOK, ScanPosition, [Next]_vars PROVE TypeOK'
  OBVIOUS
<1> USE DEF TypeOK
<1>1. ASSUME NEW s \in Sections, LayoutFragment(s) PROVE TypeOK'
  <2>1. /\ AfterLastValid(s) \in Fragments /\ Section(AfterLastValid(s)) = s
    BY <1>1, NextLaidOut, WantedAreFragments DEF LayoutFragment
  <2> QED BY <1>1, <2>1
          DEF LayoutFragment, layout, scan, Fragments, Sections, Section,
              Fragment, In
<1>2. CASE Scan
  <2>1. /\ program' = program /\ layout' = layout /\ section' = section
        /\ wasRelaxed' = wasRelaxed /\ pc' = pc /\ at' = at + 1
        /\ pc = "scan" /\ In(at, section)
    BY <1>2 DEF Scan, Scanning
  <2>2. /\ offset' = offset /\ lastValid' = lastValid
        /\ Fragments' = Fragments /\ Sections' = Sections
        /\ \A i : Section(i)' = Section(i)
    BY <2>1 DEF layout, Fragments, Sections, Section, Fragment
  <2>3. DOMAIN encoded' = Fragments
    BY <1>2 DEF Scan
  <2>4. firstInvalid' = firstInvalid \/ firstInvalid' = at
    BY <1>2 DEF Scan
  <2>5. firstInvalid' # 0 => In(firstInvalid', section) /\ firstInvalid' < at + 1
    <3>1. CASE firstInvalid' = firstInvalid
      <4>1. firstInvalid # 0 => firstInvalid \in Nat
        BY ProgramFacts DEF In
      <4> QED BY <3>1, <4>1
    <3>2. CASE firstInvalid' = at
      BY <3>2, <2>1
    <3> QED BY <2>4, <3>1, <3>2
  <2>6. (firstInvalid' # 0 =>
           In(firstInvalid, section)' /\ firstInvalid' < at')
    BY <2>1, <2>2, <2>5 DEF In
  <2> QED BY <2>1, <2>2, <2>3, <2>6
<1>3. CASE RepeatSection
  <2>1. /\ section \in Sections /\ First(section) \in Fragments
        /\ First(section) \in Nat \ {0}
    BY <1>3, FirstAndEnd, ProgramFacts DEF RepeatSection
  <2> QED BY <1>3, <2>1
          DEF RepeatSection, Fragments, Sections, Section, Fragment, In
<1>4. CASE NextSection
  BY <1>4 DEF NextSection, layout, Fragments, Sections, Section, Fragment, In
<1>5. CASE EndPass
  <2>1. wasRelaxed' \in BOOLEAN
    BY <1>5, Zenon DEF EndPass
  <2>2. /\ firstInvalid = 0 /\ section' \in Nat \ {0} /\ at' \in Nat \ {0}
        /\ pc' \in {"scan", "finish", "written", "error"}
    BY <1>5, AllScanned DEF EndPass
  <2> QED BY <1>5, <2>1, <2>2
          DEF EndPass, layout, Fragments, Sections, Section, Fragment, In
<1>6. CASE Write
  BY <1>6 DEF Write, layout, scan, Fragments, Sections, Section, Fragment, In
<1>7. CASE UNCHANGED vars
  BY <1>7 DEF vars, layout, scan, Fragments, Sections, Section, Fragment, In
<1> QED BY <1>1, <1>2, <1>3, <1>4, <1>5, <1>6, <1>7 DEF Next
-----------------------------------------------------------------------------
(* What LayoutFragment does to what has been laid out: nothing.              *)
LEMMA LaidOutStays ==
  ASSUME TypeOK, NEW s \in Sections, LayoutFragment(s)
  PROVE  /\ AfterLastValid(s) \in Fragments /\ Section(AfterLastValid(s)) = s
         /\ ~isFragmentUpToDate(AfterLastValid(s))
         /\ \A i \in Fragments : isFragmentUpToDate(i) =>
              offset'[i] = offset[i] /\ isFragmentUpToDate(i)'
         /\ \A i \in Fragments : isFragmentUpToDate(i)' =>
              \/ isFragmentUpToDate(i)
              \/ i = AfterLastValid(s) /\ pc' = pc
<1>1. /\ AfterLastValid(s) \in Fragments /\ Section(AfterLastValid(s)) = s
      /\ lastValid[s] < AfterLastValid(s)
      /\ \A i \in Fragments : Section(i) = s /\ lastValid[s] < i
                               => AfterLastValid(s) <= i
  BY NextLaidOut, WantedAreFragments DEF LayoutFragment
<1>2. /\ \A i \in Fragments : i \in Nat /\ Section(i) \in Sections
      /\ \A t \in Sections : lastValid[t] \in Nat
      /\ DOMAIN offset = Fragments /\ DOMAIN lastValid = Sections
  <2>1. \A i \in Fragments : i \in Nat
    BY ProgramFacts DEF TypeOK
  <2>2. \A i \in Fragments : Section(i) \in Sections
    BY DEF Sections
  <2> QED BY <2>1, <2>2 DEF TypeOK
<1>3. ~isFragmentUpToDate(AfterLastValid(s))
  <2>1. \A n, m \in Nat : m < n => ~(n <= m)
    OBVIOUS
  <2> QED BY <1>1, <1>2, <2>1 DEF isFragmentUpToDate
<1>4. \A i : Section(i)' = Section(i)
  BY DEF LayoutFragment, Section, Fragment
<1> DEFINE next == AfterLastValid(s)
<1> HIDE DEF next
<1>5. CASE UNCHANGED layout
  BY <1>1, <1>3, <1>4, <1>5 DEF layout, isFragmentUpToDate
<1>6. CASE /\ offset' = [offset EXCEPT ![next] =
                            IF In(next - 1, s)
                              THEN offset[next - 1] + FragmentSize(next - 1)
                            ELSE 0]
           /\ lastValid' = [lastValid EXCEPT ![s] = next]
           /\ pc' = pc
  <2>1. next \in Fragments /\ Section(next) = s /\ lastValid[s] < next
    BY <1>1 DEF next
  <2>2. ASSUME NEW i \in Fragments, isFragmentUpToDate(i)
        PROVE  offset'[i] = offset[i] /\ isFragmentUpToDate(i)'
    BY <1>2, <1>4, <1>6, <2>1, <2>2 DEF isFragmentUpToDate
  <2>3. ASSUME NEW i \in Fragments, isFragmentUpToDate(i)', i # next
        PROVE  isFragmentUpToDate(i)
    BY <1>1, <1>2, <1>4, <1>6, <2>1, <2>3 DEF isFragmentUpToDate, next
  <2> QED BY <1>1, <1>3, <1>6, <2>2, <2>3 DEF next
<1> QED BY <1>5, <1>6 DEF LayoutFragment, next
-----------------------------------------------------------------------------
LEMMA OffsetsStep == IInv /\ TypeOK' /\ [Next]_vars => OffsetsAreCurrent'
<1> SUFFICES ASSUME IInv, TypeOK', [Next]_vars PROVE OffsetsAreCurrent'
  OBVIOUS
<1> DEFINE Current(i) ==
      /\ isFragmentUpToDate(i)
      /\ Section(i) = section /\ firstInvalid # 0 => i <= firstInvalid
<1> SUFFICES ASSUME NEW i \in Fragments, Current(i)' PROVE Follows(i)'
  <2>1. Fragments' = Fragments
    BY DEF Next, LayoutFragment, Scan, RepeatSection, NextSection, EndPass,
           Write, vars, Fragments
  <2> QED BY <2>1 DEF OffsetsAreCurrent
<1>1. TypeOK /\ \A j \in Fragments : Current(j) => Follows(j)
  BY DEF IInv, OffsetsAreCurrent
<1>2. \A j : Section(j)' = Section(j) /\ Fragment(j)' = Fragment(j)
             /\ \A s : In(j, s)' = In(j, s)
  BY DEF Next, LayoutFragment, Scan, RepeatSection, NextSection, EndPass,
         Write, vars, Fragments, Section, Fragment, In
<1>3. i \in Nat /\ i - 1 # i /\ Section(i) \in Sections
      /\ lastValid[Section(i)] \in Nat
      /\ lastValid'[Section(i)] \in Nat
  <2>1. i \in Nat /\ \A j \in Fragments \cup {0} : j \in Nat
    BY <1>1, ProgramFacts DEF TypeOK
  <2>2. Section(i) \in Sections /\ lastValid \in [Sections -> Fragments \cup {0}]
    BY <1>1 DEF TypeOK, Sections
  <2>3. lastValid' \in [Sections -> Fragments \cup {0}]
    BY <1>2 DEF TypeOK, Next, LayoutFragment, Scan, RepeatSection, NextSection,
                EndPass, Write, vars, Sections, Fragments
  <2>4. i - 1 # i
    BY <2>1
  <2> QED BY <2>1, <2>2, <2>3, <2>4
(* When neither of two neighbours changes, they remain neighbours.           *)
<1>4. ASSUME Follows(i), offset'[i] = offset[i],
             In(i - 1, Section(i)) => /\ offset'[i - 1] = offset[i - 1]
                                      /\ encoded'[i - 1] = encoded[i - 1]
      PROVE  Follows(i)'
  BY <1>2, <1>4 DEF Follows, FragmentSize
<1>5. ASSUME NEW s \in Sections, LayoutFragment(s) PROVE Follows(i)'
  <2>1. /\ UNCHANGED <<encoded, section, firstInvalid>>
        /\ ~isFragmentUpToDate(AfterLastValid(s))
        /\ Section(AfterLastValid(s)) = s
    BY <1>1, <1>5, LaidOutStays DEF LayoutFragment, scan
  <2>2. CASE isFragmentUpToDate(i)
    <3>1. Follows(i) /\ offset'[i] = offset[i]
      BY <1>1, <1>2, <1>5, <2>1, <2>2, LaidOutStays
    <3>2. ASSUME In(i - 1, Section(i)) PROVE offset'[i - 1] = offset[i - 1]
      <4>1. isFragmentUpToDate(i - 1) /\ i - 1 \in Fragments
        BY <1>3, <2>2, <3>2 DEF isFragmentUpToDate, In
      <4> QED BY <1>1, <1>5, <4>1, LaidOutStays
    <3> QED BY <1>4, <2>1, <3>1, <3>2
  <2>3. CASE ~isFragmentUpToDate(i)
    <3>1. i = AfterLastValid(s) /\ pc' = pc
      BY <1>1, <1>5, <2>3, LaidOutStays
    <3>2. Section(i) = s
      BY <2>1, <3>1
    <3>3. CASE UNCHANGED layout
      BY <1>2, <2>3, <3>3 DEF layout, isFragmentUpToDate
    <3>4. CASE offset' = [offset EXCEPT ![i] =
                            IF In(i - 1, s)
                              THEN offset[i - 1] + FragmentSize(i - 1)
                            ELSE 0]
      <4>1. offset'[i - 1] = offset[i - 1] \/ i - 1 \notin DOMAIN offset
        BY <1>3, <3>4
      <4>2. In(i - 1, s) => FragmentSize(i - 1)' = FragmentSize(i - 1)
                            /\ offset'[i - 1] = offset[i - 1]
        BY <1>1, <1>2, <2>1, <4>1 DEF FragmentSize, In, TypeOK
      <4> QED BY <1>1, <1>2, <3>2, <3>4, <4>2 DEF Follows, TypeOK
    <3> QED BY <1>5, <3>1, <3>3, <3>4 DEF LayoutFragment
  <2> QED BY <2>2, <2>3
<1>6. CASE Scan
  <2>1. /\ UNCHANGED <<offset, lastValid, section>>
        /\ encoded' = [encoded EXCEPT ![at] = Relaxed(at)]
        /\ firstInvalid' = IF Relaxed(at) # encoded[at] /\ firstInvalid = 0
                             THEN at ELSE firstInvalid
        /\ at \in Fragments /\ Section(at) = section
        /\ at \in Nat \ {0} /\ DOMAIN encoded = Fragments
    BY <1>1, <1>6 DEF Scan, layout, Scanning, In, TypeOK
  <2>2. Current(i)
    BY <1>2, <2>1 DEF isFragmentUpToDate
  <2>3. Follows(i)
    BY <1>1, <2>2
  <2>4. ASSUME In(i - 1, Section(i)) PROVE encoded'[i - 1] = encoded[i - 1]
    <3>1. CASE Relaxed(at) = encoded[at]
      BY <2>1, <2>4, <3>1 DEF In
    <3>2. CASE Relaxed(at) # encoded[at] /\ i - 1 = at
      <4>1. Section(i) = section
        BY <2>1, <2>4, <3>2 DEF In
      <4>2. firstInvalid' # 0 /\ firstInvalid' <= at /\ firstInvalid' \in Nat
        BY <1>1, <2>1, <3>2, ProgramFacts DEF TypeOK, In
      <4>3. i <= firstInvalid'
        BY <1>2, <2>1, <4>1, <4>2
      <4> QED BY <1>3, <2>1, <3>2, <4>2, <4>3
    <3>3. CASE i - 1 # at
      BY <2>1, <2>4, <3>3 DEF In
    <3> QED BY <3>1, <3>2, <3>3
  <2> QED BY <1>4, <2>1, <2>3, <2>4
<1>7. CASE RepeatSection
  <2>1. /\ UNCHANGED <<offset, encoded, section>>
        /\ section \in Sections /\ firstInvalid # 0
        /\ firstInvalid \in Fragments /\ Section(firstInvalid) = section
        /\ firstInvalid \in Nat /\ DOMAIN lastValid = Sections
    BY <1>1, <1>7, ProgramFacts DEF RepeatSection, TypeOK, In
  <2>2. CASE Section(i) # section
    <3>1. lastValid'[Section(i)] = lastValid[Section(i)]
      BY <1>3, <1>7, <2>1, <2>2 DEF RepeatSection
    <3>2. Current(i)
      BY <1>2, <2>2, <3>1 DEF isFragmentUpToDate
    <3> QED BY <1>1, <1>4, <2>1, <3>2
  <2>3. CASE Section(i) = section
    <3>1. i <= lastValid'[section]
      BY <1>2, <2>3 DEF isFragmentUpToDate
    <3>2. i <= lastValid[section] /\ i <= firstInvalid
      <4>1. CASE isFragmentUpToDate(firstInvalid)
        <5>1. firstInvalid <= lastValid[section]
          BY <2>1, <4>1 DEF isFragmentUpToDate
        <5>2. lastValid'[section] = firstInvalid
          BY <1>7, <2>1, <4>1 DEF RepeatSection
        <5> QED BY <1>3, <2>1, <2>3, <3>1, <5>1, <5>2
      <4>2. CASE ~isFragmentUpToDate(firstInvalid)
        <5>1. ~(firstInvalid <= lastValid[section])
          BY <2>1, <4>2 DEF isFragmentUpToDate
        <5>2. lastValid' = lastValid
          BY <1>7, <4>2 DEF RepeatSection
        <5> QED BY <1>3, <2>1, <2>3, <3>1, <5>1, <5>2
      <4> QED BY <4>1, <4>2
    <3>3. Current(i)
      BY <2>3, <3>2 DEF isFragmentUpToDate
    <3> QED BY <1>1, <1>4, <2>1, <3>3
  <2> QED BY <2>2, <2>3
<1>8. CASE NextSection \/ EndPass \/ Write \/ UNCHANGED vars
  <2>1. UNCHANGED <<offset, encoded, lastValid, firstInvalid>>
    BY <1>8 DEF NextSection, EndPass, Write, layout, scan, vars
  <2>2. firstInvalid = 0 \/ section' = section
    BY <1>1, <1>8, AllScanned DEF NextSection, EndPass, Write, scan, vars, IInv
  <2>3. Current(i)
    BY <1>2, <2>1, <2>2 DEF isFragmentUpToDate
  <2> QED BY <1>1, <1>4, <2>1, <2>3
<1> QED BY <1>5, <1>6, <1>7, <1>8 DEF Next
-----------------------------------------------------------------------------
LEMMA PositionStep == IInv /\ [Next]_vars => ScanPosition'
<1> SUFFICES ASSUME IInv, [Next]_vars PROVE ScanPosition'
  OBVIOUS
<1>1. TypeOK /\ ScanPosition
  BY DEF IInv
<1>2. /\ Fragments = 1..Len(program.fragments)
      /\ Len(program.fragments) \in Nat \ {0}
      /\ section \in Nat \ {0} /\ at \in Nat \ {0}
      /\ \A i \in Fragments :
           /\ Section(i) \in Nat \ {0}
           /\ \A j \in Fragments : i <= j => Section(i) <= Section(j)
  BY <1>1, ProgramFacts DEF TypeOK
<1>3. Fragments' = Fragments /\ \A j : Section(j)' = Section(j)
  BY DEF Next, LayoutFragment, Scan, RepeatSection, NextSection, EndPass,
         Write, vars, Fragments, Section, Fragment
<1>4. ASSUME UNCHANGED <<section, at>>, pc' = pc \/ pc' = "error"
      PROVE  ScanPosition'
  BY <1>1, <1>3, <1>4 DEF ScanPosition
<1>5. ASSUME NEW s \in Sections, LayoutFragment(s) PROVE ScanPosition'
  BY <1>4, <1>5 DEF LayoutFragment, scan
<1>6. CASE Scan
  <2>1. /\ pc = "scan" /\ at \in Fragments /\ Section(at) = section
        /\ at' = at + 1 /\ section' = section
    BY <1>6 DEF Scan, Scanning, In
  <2>2. ASSUME NEW j \in Fragments
        PROVE  /\ j < at + 1 => Section(j) <= section
               /\ j >= at + 1 => Section(j) >= section
    BY <1>2, <2>1
  <2> QED BY <1>3, <2>1, <2>2 DEF ScanPosition
<1>7. CASE RepeatSection
  <2>1. /\ section \in Sections /\ at' = First(section) /\ section' = section
    BY <1>7 DEF RepeatSection
  <2>2. First(section) \in Fragments /\ Section(First(section)) = section
    BY <1>1, <2>1, FirstAndEnd DEF TypeOK
  <2>3. ASSUME NEW j \in Fragments
        PROVE  /\ j < First(section) => Section(j) <= section
               /\ j >= First(section) => Section(j) >= section
    BY <1>2, <2>2
  <2> QED BY <1>3, <2>1, <2>3 DEF ScanPosition
<1>8. CASE NextSection
  <2>1. /\ pc = "scan" /\ ~In(at, section)
        /\ section' = section + 1 /\ at' = at
    BY <1>8 DEF NextSection
  <2>2. ASSUME NEW j \in Fragments
        PROVE  /\ j < at => Section(j) <= section + 1
               /\ j >= at => Section(j) >= section + 1
    <3>1. /\ j < at => Section(j) <= section
          /\ j >= at => Section(j) >= section
      BY <1>1, <2>1 DEF ScanPosition
    <3>2. CASE j < at
      BY <1>2, <3>1, <3>2
    <3>3. CASE j >= at
      <4>1. at \in Fragments /\ Section(at) <= Section(j)
        BY <1>2, <3>3
      <4>2. Section(at) >= section /\ Section(at) # section
        BY <1>1, <1>2, <2>1, <4>1 DEF ScanPosition, In
      <4> QED BY <1>2, <3>3, <4>1, <4>2
    <3> QED BY <1>2, <3>2, <3>3
  <2> QED BY <1>3, <2>1, <2>2 DEF ScanPosition
<1>9. CASE EndPass
  <2>1. CASE wasRelaxed
    BY <1>2, <1>3, <1>9, <2>1 DEF EndPass, ScanPosition
  <2>2. CASE ~wasRelaxed
    BY <1>1, <1>3, <1>9, <2>2 DEF EndPass, ScanPosition
  <2> QED BY <2>1, <2>2
<1>10. CASE Write \/ UNCHANGED vars
  BY <1>1, <1>3, <1>10 DEF Write, scan, vars, ScanPosition
<1> QED BY <1>5, <1>6, <1>7, <1>8, <1>9, <1>10 DEF Next

(* Whether a fragment fits depends on its contents and on the offsets that   *)
(* are asked for when it is scanned.                                         *)
LEMMA FitStays ==
  ASSUME TypeOK, NEW i \in Fragments, Fits(i), program' = program,
         encoded'[i] = encoded[i],
         \A j \in Fragments : isFragmentUpToDate(j) =>
           offset'[j] = offset[j] /\ isFragmentUpToDate(j)'
  PROVE  Fits(i)'
<1>1. /\ \A j : Fragment(j)' = Fragment(j) /\ Section(j)' = Section(j)
      /\ Short(i)' = Short(i) /\ Asked(i)' = Asked(i)
  BY DEF Fragment, Section, Short, Asked
<1>2. \A j \in Asked(i) : offset'[j] = offset[j] /\ isFragmentUpToDate(j)'
  BY AskedAreFragments DEF TypeOK, Fits
<1>3. Relaxed(i)' = Relaxed(i)
  <2>1. CASE Short(i)
    <3>1. NeedsRelaxation(i)' = NeedsRelaxation(i)
      <4>1. CASE program.relaxAll \/ Fragment(i).target = NoSymbol
        BY <1>1, <4>1 DEF NeedsRelaxation
      <4>2. CASE ~program.relaxAll /\ Fragment(i).target # NoSymbol
        <5>1. {i, Fragment(i).target.fragment} \subseteq Asked(i)
          <6>1. Asked(i) = {i} \cup {Fragment(i).target.fragment}
            BY <2>1, <4>2, Zenon DEF Asked, Short
          <6> QED BY <6>1
        <5> QED BY <1>1, <1>2, <4>2, <5>1 DEF NeedsRelaxation, SymbolOffset
      <4> QED BY <4>1, <4>2
    <3> QED BY <1>1, <2>1, <3>1 DEF Relaxed
  <2>2. CASE ~Short(i) /\ Fragment(i).kind = "delta"
    <3> DEFINE from == Fragment(i).from
               to == Fragment(i).to
    <3>1. Difference(from, to)' = Difference(from, to)
      <4>1. CASE from.fragment = to.fragment
        BY <1>1, <4>1 DEF Difference
      <4>2. CASE from.fragment # to.fragment
        <5>1. {from.fragment, to.fragment} \subseteq Asked(i)
          BY <2>2, <4>2 DEF Asked
        <5> QED BY <1>1, <1>2, <4>2, <5>1 DEF Difference, SymbolOffset
      <4> QED BY <4>1, <4>2
    <3> QED BY <1>1, <2>2, <3>1 DEF Relaxed
  <2>3. CASE ~Short(i) /\ Fragment(i).kind # "delta"
    BY <1>1, <2>3 DEF Relaxed
  <2> QED BY <2>1, <2>2, <2>3
<1> QED BY <1>1, <1>2, <1>3 DEF Fits

LEMMA FitsStep ==
  IInv /\ [Next]_vars => ScannedFits' /\ FinishedFits' /\ AllLaidOut'
<1> SUFFICES ASSUME IInv, [Next]_vars
             PROVE  ScannedFits' /\ FinishedFits' /\ AllLaidOut'
  OBVIOUS
<1>1. TypeOK /\ ScanPosition /\ ScannedFits /\ FinishedFits /\ AllLaidOut
  BY DEF IInv
<1>2. Fragments' = Fragments /\ program' = program
  BY DEF Next, LayoutFragment, Scan, RepeatSection, NextSection, EndPass,
         Write, vars, Fragments
(* As long as neither contents nor what is laid out change, what fits fits.  *)
<1>3. ASSUME NEW j \in Fragments, Fits(j), encoded'[j] = encoded[j],
             UNCHANGED layout
      PROVE  Fits(j)'
  <2>1. \A i \in Fragments : isFragmentUpToDate(i) =>
          offset'[i] = offset[i] /\ isFragmentUpToDate(i)'
    BY <1>2, <1>3 DEF layout, isFragmentUpToDate, Section, Fragment
  <2> QED BY <1>1, <1>2, <1>3, <2>1, FitStays
<1>4. ASSUME NEW s \in Sections, LayoutFragment(s)
      PROVE  ScannedFits' /\ FinishedFits' /\ AllLaidOut'
  <2>1. UNCHANGED <<encoded, section, at, firstInvalid, wasRelaxed>>
        /\ (pc' = pc \/ pc' = "error")
    BY <1>4 DEF LayoutFragment, scan
  <2>2. \A i \in Fragments : isFragmentUpToDate(i) =>
          offset'[i] = offset[i] /\ isFragmentUpToDate(i)'
    BY <1>1, <1>4, LaidOutStays
  <2>3. \A j \in Fragments : Fits(j) => Fits(j)'
    BY <1>1, <1>2, <2>1, <2>2, FitStays
  <2>4. ScannedFits'
    BY <1>1, <1>2, <2>1, <2>3 DEF ScannedFits
  <2>5. FinishedFits'
    BY <1>1, <1>2, <2>1, <2>3 DEF FinishedFits
  <2>6. AllLaidOut'
    BY <1>1, <1>2, <2>1, <2>2 DEF AllLaidOut
  <2> QED BY <2>4, <2>5, <2>6
<1>5. CASE Scan
  <2>1. /\ pc = "scan" /\ pc' = "scan" /\ at \in Fragments /\ at \in Nat
        /\ Ready /\ Wanted = Asked(at) /\ at' = at + 1
        /\ encoded' = [encoded EXCEPT ![at] = Relaxed(at)]
        /\ firstInvalid' = IF Relaxed(at) # encoded[at] /\ firstInvalid = 0
                             THEN at ELSE firstInvalid
        /\ UNCHANGED <<layout, wasRelaxed>>
    BY <1>1, <1>5 DEF Scan, Scanning, In, Wanted, TypeOK
  <2>2. ASSUME ~wasRelaxed, firstInvalid' = 0, NEW j \in Fragments, j < at + 1
        PROVE  Fits(j)'
    <3>1. Relaxed(at) = encoded[at] /\ firstInvalid = 0
      BY <2>1, <2>2, ProgramFacts, <1>1 DEF TypeOK
    <3>2. encoded'[j] = encoded[j]
      BY <1>1, <2>1, <3>1 DEF TypeOK
    <3>3. Fits(at)
      BY <2>1, <3>1 DEF Fits, Ready
    <3>4. j < at \/ j = at
      BY <1>1, <2>1, <2>2, ProgramFacts DEF TypeOK
    <3>5. Fits(j)
      BY <1>1, <2>1, <2>2, <3>1, <3>3, <3>4 DEF ScannedFits
    <3> QED BY <1>3, <2>1, <3>2, <3>5
  <2>3. ScannedFits'
    BY <1>2, <2>1, <2>2 DEF ScannedFits
  <2> QED BY <2>1, <2>3 DEF FinishedFits, AllLaidOut
<1>6. CASE RepeatSection
  BY <1>6 DEF RepeatSection, ScannedFits, FinishedFits, AllLaidOut
<1>7. CASE NextSection
  <2>1. /\ UNCHANGED <<encoded, layout, at, firstInvalid, wasRelaxed, pc>>
        /\ pc = "scan"
    BY <1>7 DEF NextSection
  <2>2. ScannedFits'
    BY <1>1, <1>2, <1>3, <2>1 DEF ScannedFits
  <2> QED BY <2>1, <2>2 DEF FinishedFits, AllLaidOut
<1>8. CASE EndPass
  <2>1. UNCHANGED <<encoded, layout>> /\ firstInvalid' = firstInvalid
        /\ firstInvalid = 0 /\ \A j \in Fragments : j < at
    BY <1>1, <1>8, AllScanned DEF EndPass
  <2>2. CASE wasRelaxed
    <3>1. pc' = "scan" /\ at' = 1
      BY <1>8, <2>2 DEF EndPass
    <3>2. \A j \in Fragments : ~(j < 1)
      BY <1>1, ProgramFacts DEF TypeOK
    <3> QED BY <1>2, <3>1, <3>2 DEF ScannedFits, FinishedFits, AllLaidOut
  <2>3. CASE ~wasRelaxed
    <3>1. pc = "scan" /\ pc' = "finish"
      BY <1>8, <2>3 DEF EndPass
    <3>2. \A j \in Fragments : Fits(j)
      BY <1>1, <2>1, <2>3, <3>1 DEF ScannedFits
    <3> QED BY <1>2, <1>3, <2>1, <3>1, <3>2
            DEF ScannedFits, FinishedFits, AllLaidOut
  <2> QED BY <2>2, <2>3
<1>9. CASE Write
  <2>1. /\ pc = "finish" /\ Wanted = {End(s) : s \in Sections} /\ Ready
        /\ pc' \in {"written", "error"}
        /\ UNCHANGED <<encoded, layout, firstInvalid>>
    BY <1>9 DEF Write, scan, Wanted, Scanning
  <2>2. ASSUME NEW j \in Fragments PROVE isFragmentUpToDate(j)'
    <3> DEFINE s == Section(j)
    <3>1. s \in Sections
      BY DEF Sections
    <3>2. End(s) \in Fragments /\ Section(End(s)) = s /\ j <= End(s)
      BY <1>1, <3>1, FirstAndEnd DEF TypeOK
    <3>3. End(s) <= lastValid[s]
      BY <2>1, <3>1, <3>2 DEF Ready, isFragmentUpToDate
    <3>4. j \in Nat /\ End(s) \in Nat /\ lastValid[s] \in Nat
      BY <1>1, <3>1, <3>2, ProgramFacts DEF TypeOK
    <3>5. j <= lastValid[s]
      BY <3>2, <3>3, <3>4
    <3> QED BY <1>2, <2>1, <3>5 DEF layout, isFragmentUpToDate, Section, Fragment
  <2> QED BY <1>1, <1>2, <1>3, <2>1, <2>2
          DEF ScannedFits, FinishedFits, AllLaidOut
<1>10. CASE UNCHANGED vars
  <2>1. UNCHANGED <<encoded, layout, at, firstInvalid, wasRelaxed, pc>>
    BY <1>10 DEF vars, scan
  <2>2. ASSUME NEW j \in Fragments
        PROVE  isFragmentUpToDate(j)' = isFragmentUpToDate(j)
    BY <1>2, <2>1 DEF layout, isFragmentUpToDate, Section, Fragment
  <2>3. ScannedFits' /\ FinishedFits'
    BY <1>1, <1>2, <1>3, <2>1 DEF ScannedFits, FinishedFits
  <2>4. AllLaidOut'
    BY <1>1, <1>2, <2>1, <2>2 DEF AllLaidOut
  <2> QED BY <2>3, <2>4
<1> QED BY <1>4, <1>5, <1>6, <1>7, <1>8, <1>9, <1>10 DEF Next
-----------------------------------------------------------------------------
LEMMA Invariant == Spec => []IInv
<1>1. IInv /\ [Next]_vars => IInv'
  BY TypeStep, OffsetsStep, PositionStep, FitsStep DEF IInv
<1> QED BY InitInvariant, <1>1, PTL DEF Spec

(* The state of a layout is well typed, for every program.                   *)
THEOREM TypeCorrect == Spec => []TypeOK
<1>1. IInv => TypeOK
  BY DEF IInv
<1> QED BY Invariant, <1>1, PTL

(* "All fragments with a lower ordinal will be up to date": the offsets that *)
(* LastValidFragment vouches for are right after every step.                 *)
THEOREM CurrentOffsets == Spec => []OffsetsAreCurrent
<1>1. IInv => OffsetsAreCurrent
  BY DEF IInv
<1> QED BY Invariant, <1>1, PTL

(* What MCAssembler::Finish writes is laid out without gaps, and everything  *)
(* in it fits, for every program and any encoding of differences.            *)
THEOREM WrittenFits == Spec => []EverythingFits
<1>1. ASSUME IInv, pc = "written", NEW i \in Fragments
      PROVE  isFragmentUpToDate(i) /\ Follows(i) /\ Fits(i)
  <2>1. isFragmentUpToDate(i) /\ Fits(i) /\ firstInvalid = 0
    BY <1>1 DEF IInv, AllLaidOut, FinishedFits
  <2>2. Follows(i)
    BY <1>1, <2>1 DEF IInv, OffsetsAreCurrent
  <2> QED BY <2>1, <2>2
<1>2. IInv => EverythingFits
  BY <1>1 DEF EverythingFits
<1> QED BY Invariant, <1>2, PTL
=============================================================================
