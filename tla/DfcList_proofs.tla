---------------------------- MODULE DfcList_proofs ----------------------------
(***************************************************************************)
(* Proofs about DfcList, for any number of files and any answers: the list *)
(* made in place is the list of the answers.                               *)
(***************************************************************************)
EXTENDS DfcList, TLAPS

USE DEF Nothing, NoPart

\* Before the first command the invariant holds: nothing is being scanned.
LEMMA InitInv == Init => ListInv /\ ListingRight
<1> SUFFICES ASSUME Init PROVE ListInv /\ ListingRight
  OBVIOUS
<1>1. p \in [Index -> Word]
  BY DEF Init, Empty, Word
<1>2. count \in [Index -> SUBSET Part]
  BY DEF Init
<1>3. answer \in Seq(Pieces) /\ shown \in Seq([name : Names, complete : BOOLEAN])
  BY DEF Init
<1>4. n \in 0 .. MaxAnswer /\ i \in 1 .. MaxAnswer + 1 /\ j \in 0 .. MaxAnswer
  BY ListAssumption DEF Init
<1>5. pc = "prompt" /\ msg = FALSE /\ operand = Nothing /\ pkt = Nothing
  BY DEF Init
<1>6. TypeOK
  BY <1>1, <1>2, <1>3, <1>4, <1>5 DEF TypeOK
<1>7. AsksForOperand /\ InPlace /\ ListingRight
  BY <1>5 DEF AsksForOperand, InPlace, ListingRight
<1> QED
  BY <1>6, <1>7 DEF ListInv

-----------------------------------------------------------------------------
\* A command line leaves an array of words, and its operand in the second.
LEMMA LineType ==
    ASSUME NEW command \in {"list", "mkdir", "get", "put"},
           NEW d \in Directories \cup {Nothing}
    PROVE  /\ Line(command, d) \in [Index -> Word]
           /\ Line(command, d)[2].name = d
BY ListAssumption DEF Line, Cleared, Index, Word, Plain, Typed, Pieces

\* A command: the packet of a LIST names the operand typed with it.
LEMMA CommandInv == ListInv /\ Command => ListInv' /\ ListingRight'
<1> SUFFICES ASSUME ListInv, Command PROVE ListInv' /\ ListingRight'
  OBVIOUS
<1> PICK command \in {"list", "mkdir", "get", "put"}, d \in Directories \cup {Nothing} :
        /\ p' = Line(command, d) /\ operand' = d
        /\ msg' = (msg \/ (command \in {"list", "mkdir"} /\ d # Nothing))
        /\ IF d = Nothing /\ command # "list"
           THEN pc' = "prompt" /\ UNCHANGED pkt
           ELSE /\ pkt' = IF msg' THEN p'[2].name ELSE Nothing
                /\ pc' = IF command = "list" THEN "asked" ELSE "prompt"
  BY DEF Command
<1>1. p' \in [Index -> Word] /\ p'[2].name = d
  BY LineType
<1>2. pkt' \in Names \cup Typed \cup {Nothing}
  BY <1>1 DEF ListInv, TypeOK, Typed
<1>3. pc' = "asked" => pkt' = operand'
  BY <1>1
<1>4. pc' \in {"prompt", "asked"} /\ msg' \in BOOLEAN
  BY DEF ListInv, TypeOK
<1>5. /\ answer' \in Seq(Pieces) /\ shown' \in Seq([name : Names, complete : BOOLEAN])
      /\ count' \in [Index -> SUBSET Part]
      /\ n' \in 0 .. MaxAnswer /\ i' \in 1 .. MaxAnswer + 1 /\ j' \in 0 .. MaxAnswer
  BY ListAssumption DEF Command
<1>6. TypeOK'
  BY <1>1, <1>2, <1>4, <1>5 DEF TypeOK
<1>7. AsksForOperand' /\ InPlace' /\ ListingRight'
  BY <1>3, <1>4 DEF AsksForOperand, InPlace, ListingRight
<1> QED
  BY <1>6, <1>7 DEF ListInv

-----------------------------------------------------------------------------
\* The answers arrive: the scan begins at the first of them.
LEMMA AnsweredInv == ListInv /\ Answered => ListInv' /\ ListingRight'
<1> SUFFICES ASSUME ListInv, Answered PROVE ListInv' /\ ListingRight'
  OBVIOUS
<1> USE DEF Answered
<1>1. PICK l \in 0 .. MaxAnswer : answer' \in [1 .. l -> Pieces]
  BY DEF Answers
<1>2. answer' \in Seq(Pieces) /\ Len(answer') = l /\ n' = l
  BY <1>1, ListAssumption
<1>3. p' \in [Index -> Word]
  BY <1>1, <1>2 DEF ListInv, TypeOK, Word, Index
<1>4. i' = 1 /\ j' = 0 /\ count' \in [Index -> SUBSET Part]
      /\ \A k \in Index : count'[k] = {}
  OBVIOUS
<1>5. TypeOK'
  BY <1>2, <1>3, <1>4, ListAssumption DEF ListInv, TypeOK
<1>6. AsksForOperand' /\ ListingRight'
  BY DEF ListInv, AsksForOperand, ListingRight
<1>7. \A k \in 1 .. l : p'[k] = answer'[k]
  BY <1>2, ListAssumption DEF Index
<1>8. InPlace'
  BY <1>2, <1>4, <1>7, ListAssumption DEF InPlace
<1> QED
  BY <1>5, <1>6, <1>8 DEF ListInv

-----------------------------------------------------------------------------
\* One more answer adds its piece to those of its file, and to no other.
LEMMA OneMorePart ==
    ASSUME NEW f, NEW m \in 1 .. Len(answer)
    PROVE  PartsOf(f, m) = PartsOf(f, m - 1)
               \cup IF answer[m].name = f THEN {answer[m].part} ELSE {}
BY DEF PartsOf

\* One word scanned: the place it is written to has been scanned before.
LEMMA ScanInv == ListInv /\ Scan => ListInv' /\ ListingRight'
<1> SUFFICES ASSUME ListInv, Scan PROVE ListInv' /\ ListingRight'
  OBVIOUS
<1> DEFINE name == p[i].name
           part == p[i].part
<1>1. TypeOK /\ AsksForOperand /\ InPlace /\ pc = "scan"
  BY DEF ListInv, Scan
<1>2. /\ i \in Nat /\ j \in Nat /\ n \in Nat /\ Size \in Nat /\ MaxAnswer \in Nat
      /\ i >= 1 /\ i <= n /\ j < i /\ n <= MaxAnswer /\ MaxAnswer <= Size
  BY <1>1, ListAssumption DEF Scan, TypeOK, InPlace
<1>3. n = Len(answer) /\ answer \in Seq(Pieces)
  BY <1>1 DEF TypeOK, InPlace
<1>4. p \in [Index -> Word] /\ count \in [Index -> SUBSET Part]
  BY <1>1 DEF TypeOK
<1>5. \A k \in i .. n : p[k] = answer[k]
  BY <1>1 DEF InPlace
<1>6. \A k \in 1 .. j : /\ p[k] \in {Plain(f) : f \in Names}
                        /\ count[k] = PartsOf(p[k].name, i - 1)
  BY <1>1 DEF InPlace
<1>7. \A k, l \in 1 .. j : p[k] = p[l] => k = l
  BY <1>1 DEF InPlace
<1>8. \A k \in Index : k > j => count[k] = {}
  BY <1>1 DEF InPlace
<1>9. /\ \A l \in 1 .. i - 1 : \E k \in 1 .. j : p[k].name = answer[l].name
      /\ \A k \in 1 .. j : \E l \in 1 .. i - 1 : p[k].name = answer[l].name
  BY <1>1 DEF InPlace
<1>10. i' = i + 1 /\ UNCHANGED <<pc, msg, operand, pkt, answer, n, shown>>
  BY DEF Scan
<1>11. p[i] = answer[i] /\ answer[i] \in Pieces /\ i \in 1 .. Len(answer)
  BY <1>2, <1>3, <1>5
<1>12. name \in Names /\ part \in Part /\ name = answer[i].name /\ part = answer[i].part
  BY <1>11 DEF Pieces
<1>13. \A f : PartsOf(f, i) = PartsOf(f, i - 1) \cup IF name = f THEN {part} ELSE {}
  BY <1>11, <1>12, OneMorePart
<1>14. j + 1 \in Index /\ 1 .. j \subseteq Index
  BY <1>2 DEF Index
<1>15. AsksForOperand' /\ ListingRight'
  BY <1>1, <1>10 DEF AsksForOperand, ListingRight
<1>16. \A k \in 1 .. j : p[k] = Plain(p[k].name) /\ p[k].name \in Names
  BY <1>6 DEF Plain
<1>17. j' \in 0 .. MaxAnswer /\ p' \in [Index -> Word] /\ count' \in [Index -> SUBSET Part]
         => TypeOK'
  BY <1>1, <1>2, <1>10 DEF TypeOK
<1>18. i' - 1 = i /\ i' <= n' + 1 /\ n' = Len(answer')
  BY <1>2, <1>3, <1>10
<1>19. ASSUME j' < i',
              \A k \in i + 1 .. n : p'[k] = answer[k],
              \A k \in 1 .. j' : p'[k] \in {Plain(f) : f \in Names},
              \A k \in 1 .. j' : count'[k] = PartsOf(p'[k].name, i),
              \A k, l \in 1 .. j' : p'[k] = p'[l] => k = l,
              \A k \in Index : k > j' => count'[k] = {},
              \A l \in 1 .. i : \E k \in 1 .. j' : p'[k].name = answer[l].name,
              \A k \in 1 .. j' : \E l \in 1 .. i : p'[k].name = answer[l].name
       PROVE  InPlace'
  <2>1. \A k \in 1 .. j' : count'[k] = PartsOf(p[k].name, i - 1)'
    BY <1>19, <1>10, <1>18 DEF PartsOf
  <2>2. answer' = answer /\ n' = n
    BY <1>10
  <2> QED
    BY <1>19, <1>10, <1>18, <2>1, <2>2 DEF InPlace
<1> HIDE DEF name, part
<1>20. CASE Found(name) # {}
  <2>1. /\ p' = p /\ j' = j
        /\ count' = [k \in Index |-> IF k \in Found(name) THEN count[k] \cup {part}
                                     ELSE count[k]]
    BY <1>20 DEF Scan, Bit, name, part
  <2>2. \A k \in 1 .. j : k \in Found(name) <=> p[k].name = name
    <3>1. \A k \in 1 .. j : p[k] = Plain(name) => p[k].name = name
      BY DEF Plain
    <3>2. \A k \in 1 .. j : p[k].name = name => p[k] = Plain(name)
      BY <1>16
    <3> QED
      BY <3>1, <3>2 DEF Found
  <2>3. PICK q \in 1 .. j : p[q].name = name
    BY <1>20, <2>2 DEF Found
  <2>4. count' \in [Index -> SUBSET Part]
    BY <2>1, <1>4, <1>12
  <2>5. TypeOK'
    BY <2>1, <2>4, <1>1, <1>4, <1>17 DEF TypeOK
  <2>6. \A k \in 1 .. j : count'[k] = PartsOf(p[k].name, i)
    <3> SUFFICES ASSUME NEW k \in 1 .. j PROVE count'[k] = PartsOf(p[k].name, i)
      OBVIOUS
    <3>1. count[k] = PartsOf(p[k].name, i - 1)
      BY <1>6
    <3>2. PartsOf(p[k].name, i) =
              PartsOf(p[k].name, i - 1) \cup IF name = p[k].name THEN {part} ELSE {}
      BY <1>13
    <3>3. count'[k] = IF k \in Found(name) THEN count[k] \cup {part} ELSE count[k]
      BY <2>1, <1>14
    <3> QED
      BY <3>1, <3>2, <3>3, <2>2
  <2>7. \A k \in Index : k > j => count'[k] = {}
    BY <2>1, <1>2, <1>8 DEF Found, Index
  <2>8. \A l \in 1 .. i : \E k \in 1 .. j : p[k].name = answer[l].name
    <3> SUFFICES ASSUME NEW l \in 1 .. i
                 PROVE  \E k \in 1 .. j : p[k].name = answer[l].name
      OBVIOUS
    <3>1. CASE l = i
      BY <3>1, <2>3, <1>12
    <3>2. CASE l \in 1 .. i - 1
      BY <3>2, <1>9
    <3> QED
      BY <3>1, <3>2, <1>2
  <2>9. \A k \in 1 .. j : \E l \in 1 .. i : p[k].name = answer[l].name
    BY <1>2, <1>9
  <2>10. j' < i' /\ \A k \in i + 1 .. n : p'[k] = answer[k]
    BY <2>1, <1>2, <1>5, <1>10
  <2>11. InPlace'
    BY <2>1, <2>6, <2>7, <2>8, <2>9, <2>10, <1>6, <1>7, <1>19
  <2> QED
    BY <2>5, <2>11, <1>15 DEF ListInv
<1>21. CASE Found(name) = {}
  <2>1. /\ p' = [p EXCEPT ![j + 1] = Plain(name)] /\ j' = j + 1
        /\ count' = [count EXCEPT ![j + 1] = @ \cup {part}]
    BY <1>21 DEF Scan, Bit, name, part
  <2>2. \A k \in 1 .. j : p[k] # Plain(name) /\ p[k].name # name
    BY <1>16, <1>21 DEF Found
  <2>3. Plain(name) \in Word /\ Plain(name).name = name
        /\ Plain(name) \in {Plain(f) : f \in Names}
    BY <1>12 DEF Word, Plain
  <2>4. p' \in [Index -> Word] /\ count' \in [Index -> SUBSET Part]
    BY <2>1, <2>3, <1>4, <1>12
  <2>5. TypeOK'
    BY <2>1, <2>4, <1>2, <1>17
  <2>6. p'[j + 1] = Plain(name) /\ count'[j + 1] = {part}
    BY <2>1, <1>2, <1>4, <1>8, <1>14
  <2>7. \A k \in Index : k # j + 1 => p'[k] = p[k] /\ count'[k] = count[k]
    BY <2>1, <1>4
  <2>8. \A k \in 1 .. j : p'[k] = p[k] /\ count'[k] = count[k]
    BY <2>7, <1>2, <1>14
  <2>9. \A k \in 1 .. j' : k \in 1 .. j \/ k = j + 1
    BY <2>1, <1>2
  <2>10. PartsOf(name, i - 1) = {}
    BY <1>2, <1>9, <2>2 DEF PartsOf
  <2>11. \A k \in 1 .. j' : count'[k] = PartsOf(p'[k].name, i)
    <3>1. ASSUME NEW k \in 1 .. j PROVE count'[k] = PartsOf(p'[k].name, i)
      <4>1. PartsOf(p[k].name, i) = PartsOf(p[k].name, i - 1)
        BY <2>2, <1>13
      <4> QED
        BY <4>1, <2>8, <1>6
    <3>2. count'[j + 1] = PartsOf(p'[j + 1].name, i)
      BY <2>3, <2>6, <2>10, <1>13
    <3> QED
      BY <3>1, <3>2, <2>9
  <2>12. \A k \in 1 .. j' : p'[k] \in {Plain(f) : f \in Names}
    BY <2>3, <2>6, <2>8, <2>9, <1>6
  <2>13. \A k, l \in 1 .. j' : p'[k] = p'[l] => k = l
    BY <2>2, <2>6, <2>8, <2>9, <1>7
  <2>14. \A k \in Index : k > j' => count'[k] = {}
    BY <2>1, <2>7, <1>2, <1>8 DEF Index
  <2>15. \A l \in 1 .. i : \E k \in 1 .. j' : p'[k].name = answer[l].name
    <3> SUFFICES ASSUME NEW l \in 1 .. i
                 PROVE  \E k \in 1 .. j' : p'[k].name = answer[l].name
      OBVIOUS
    <3>1. CASE l = i
      <4>1. j + 1 \in 1 .. j'
        BY <2>1, <1>2
      <4> QED
        BY <3>1, <4>1, <2>3, <2>6, <1>12
    <3>2. CASE l \in 1 .. i - 1
      <4>1. PICK k \in 1 .. j : p[k].name = answer[l].name
        BY <3>2, <1>9
      <4>2. k \in 1 .. j' /\ p'[k].name = answer[l].name
        BY <4>1, <2>1, <2>8, <1>2
      <4> QED
        BY <4>2
    <3> QED
      BY <3>1, <3>2, <1>2
  <2>16. \A k \in 1 .. j' : \E l \in 1 .. i : p'[k].name = answer[l].name
    <3> SUFFICES ASSUME NEW k \in 1 .. j'
                 PROVE  \E l \in 1 .. i : p'[k].name = answer[l].name
      OBVIOUS
    <3>1. CASE k = j + 1
      <4>1. i \in 1 .. i
        BY <1>2
      <4> QED
        BY <3>1, <4>1, <2>3, <2>6, <1>12
    <3>2. CASE k \in 1 .. j
      <4>1. PICK l \in 1 .. i - 1 : p[k].name = answer[l].name
        BY <3>2, <1>9
      <4>2. l \in 1 .. i /\ p'[k].name = answer[l].name
        BY <3>2, <4>1, <2>8, <1>2
      <4> QED
        BY <4>2
    <3> QED
      BY <3>1, <3>2, <2>9
  <2>17. \A k \in i + 1 .. n : p'[k] = answer[k]
    BY <2>7, <1>2, <1>5 DEF Index
  <2>18. j' < i'
    BY <2>1, <1>2, <1>10
  <2>19. InPlace'
    BY <2>11, <2>12, <2>13, <2>14, <2>15, <2>16, <2>17, <2>18, <1>19
  <2> QED
    BY <2>5, <2>19, <1>15 DEF ListInv
<1> QED
  BY <1>20, <1>21

-----------------------------------------------------------------------------
\* The list is printed when every answer has been scanned.
LEMMA ShowListInv ==
    ListInv /\ ShowList => ListInv' /\ (NumHosts = 4 => ListingRight')
<1> SUFFICES ASSUME ListInv, ShowList
             PROVE  ListInv' /\ (NumHosts = 4 => ListingRight')
  OBVIOUS
<1>1. /\ j \in Nat /\ n \in Nat /\ n = Len(answer) /\ i = n + 1 /\ i - 1 = n
      /\ TypeOK /\ AsksForOperand /\ InPlace /\ pc = "scan" /\ pc' = "printed"
      /\ j <= Size
  BY ListAssumption DEF ListInv, ShowList, TypeOK, InPlace
<1>2. UNCHANGED <<p, msg, operand, pkt, answer, n, i, j, count>>
  BY DEF ShowList
<1>3. shown' = [k \in 1 .. j |-> [name |-> p[k].name, complete |-> Complete(count[k])]]
  BY DEF ShowList
<1>4. /\ \A k \in 1 .. j : p[k] \in {Plain(f) : f \in Names}
      /\ \A k \in 1 .. j : count[k] = PartsOf(p[k].name, n)
      /\ \A k, l \in 1 .. j : p[k] = p[l] => k = l
      /\ \A l \in 1 .. n : \E k \in 1 .. j : p[k].name = answer[l].name
      /\ \A k \in 1 .. j : \E l \in 1 .. n : p[k].name = answer[l].name
  BY <1>1 DEF InPlace
<1>5. \A k \in 1 .. j : p[k].name \in Names /\ p[k] = Plain(p[k].name)
  BY <1>4 DEF Plain
<1>6. \A k \in 1 .. j : Complete(count[k]) \in BOOLEAN
  BY DEF Complete
<1>7. shown' \in Seq([name : Names, complete : BOOLEAN]) /\ Len(shown') = j
  BY <1>1, <1>3, <1>5, <1>6
<1>8. \A k \in 1 .. j : /\ shown'[k].name = p[k].name
                        /\ shown'[k].complete = Complete(count[k])
  BY <1>3
<1>9. TypeOK' /\ AsksForOperand' /\ InPlace'
  BY <1>1, <1>2, <1>7 DEF TypeOK, AsksForOperand, InPlace
<1>10. \A k, l \in 1 .. j : p[k].name = p[l].name => k = l
  BY <1>4, <1>5
<1>11. ASSUME NumHosts = 4
       PROVE  \A k \in 1 .. j : Complete(count[k]) <=> PartsOf(p[k].name, n) = Part
  <2>1. Part = {0, 1, 2, 3}
    BY <1>11 DEF Part
  <2> QED
    BY <2>1, <1>4 DEF Complete
<1>12. \A f \in Names : (\E k \in 1 .. j : p[k].name = f) <=> PartsOf(f, n) # {}
  <2>1. \A f : PartsOf(f, n) # {} <=> \E l \in 1 .. n : answer[l].name = f
    BY DEF PartsOf
  <2>2. \A l \in 1 .. n : \E k \in 1 .. j : p[k].name = answer[l].name
    BY <1>4
  <2>3. \A k \in 1 .. j : \E l \in 1 .. n : p[k].name = answer[l].name
    BY <1>4
  <2> QED
    BY <2>1, <2>2, <2>3
<1>13. \A f : PartsOf(f, n)' = PartsOf(f, n)
  BY <1>2 DEF PartsOf
<1>14. ASSUME NumHosts = 4 PROVE ListingRight'
  <2>1. \A k, l \in 1 .. Len(shown') : shown'[k].name = shown'[l].name => k = l
    BY <1>7, <1>8, <1>10
  <2>2. \A f \in Names : Listed(f)' # {} <=> PartsOf(f, n)' # {}
    BY <1>7, <1>8, <1>12, <1>13 DEF Listed
  <2>3. \A k \in 1 .. Len(shown') :
            shown'[k].complete <=> PartsOf(shown[k].name, n)' = Part
    <3> SUFFICES ASSUME NEW k \in 1 .. j
                 PROVE  shown'[k].complete <=> PartsOf(shown[k].name, n)' = Part
      BY <1>7
    <3>1. PartsOf(shown[k].name, n)' = PartsOf(p[k].name, n)
      BY <1>2, <1>8 DEF PartsOf
    <3>2. shown'[k].complete = Complete(count[k])
      BY <1>8
    <3> QED
      BY <3>1, <3>2, <1>11, <1>14
  <2> QED
    BY <2>1, <2>2, <2>3 DEF ListingRight
<1> QED
  BY <1>9, <1>14 DEF ListInv

\* A step that changes nothing.
LEMMA StutterInv == ListInv /\ UNCHANGED vars => ListInv'
<1> SUFFICES ASSUME ListInv, UNCHANGED vars PROVE ListInv'
  OBVIOUS
<1>1. TypeOK' /\ AsksForOperand'
  BY DEF vars, ListInv, TypeOK, AsksForOperand
<1>2. /\ p' = p /\ pc' = pc /\ answer' = answer /\ n' = n /\ i' = i /\ j' = j
      /\ count' = count /\ shown' = shown
  BY DEF vars
<1>3. InPlace'
  <2> SUFFICES ASSUME pc = "scan" PROVE InPlace'
    BY <1>2 DEF InPlace
  <2>1. \A k \in 1 .. j : count[k] = PartsOf(p[k].name, i - 1)
    BY DEF ListInv, InPlace
  <2>2. \A k \in 1 .. j' : count'[k] = PartsOf(p[k].name, i - 1)'
    BY <1>2, <2>1 DEF PartsOf
  <2> QED
    BY <1>2, <2>2 DEF ListInv, InPlace
<1> QED
  BY <1>1, <1>3 DEF ListInv

\* Nor does such a step change what has been printed.
LEMMA StutterRight == ListingRight /\ UNCHANGED vars => ListingRight'
<1> SUFFICES ASSUME ListingRight, UNCHANGED vars PROVE ListingRight'
  OBVIOUS
<1>1. /\ p' = p /\ pc' = pc /\ answer' = answer /\ n' = n /\ i' = i /\ j' = j
      /\ count' = count /\ shown' = shown
  BY DEF vars
<1>2. ListingRight'
  <2> SUFFICES ASSUME pc = "printed" PROVE ListingRight'
    BY <1>1 DEF ListingRight
  <2>1. \A f \in Names : Listed(f)' # {} <=> PartsOf(f, n)' # {}
    <3> SUFFICES ASSUME NEW f \in Names
                 PROVE  Listed(f)' # {} <=> PartsOf(f, n)' # {}
      OBVIOUS
    <3>1. Listed(f) # {} <=> PartsOf(f, n) # {}
      BY DEF ListingRight
    <3>2. Listed(f)' = Listed(f)
      BY <1>1 DEF Listed
    <3>3. PartsOf(f, n)' = PartsOf(f, n)
      BY <1>1 DEF PartsOf
    <3> QED
      BY <3>1, <3>2, <3>3
  <2>2. \A k \in 1 .. Len(shown) :
            shown[k].complete <=> PartsOf(shown[k].name, n) = Part
    BY DEF ListingRight
  <2>3. \A k \in 1 .. Len(shown') :
            shown'[k].complete <=> PartsOf(shown[k].name, n)' = Part
    BY <1>1, <2>2 DEF PartsOf
  <2> QED
    BY <1>1, <2>1, <2>3 DEF ListingRight
<1> QED
  BY <1>2

-----------------------------------------------------------------------------
\* The list is made in place without overwriting an answer that has not been
\* scanned, and the counts kept with it are those of the answers so far.
THEOREM ListInvariant == Spec => []ListInv
<1>1. Init => ListInv
  BY InitInv
<1>2. ListInv /\ [Next]_vars => ListInv'
  BY CommandInv, AnsweredInv, ScanInv, ShowListInv, StutterInv DEF Next
<1> QED
  BY <1>1, <1>2, PTL DEF Spec

\* The array and its counters stay within their bounds.
THEOREM ListTypeOK == Spec => []TypeOK
<1>1. ListInv => TypeOK
  BY DEF ListInv
<1> QED
  BY <1>1, ListInvariant, PTL

\* A LIST packet names the operand that was typed with it.
THEOREM ListAsksForOperand == Spec => []AsksForOperand
<1>1. ListInv => AsksForOperand
  BY DEF ListInv
<1> QED
  BY <1>1, ListInvariant, PTL

\* Every file that a server has listed is printed once, complete just when
\* all of its pieces are there: with four servers.  With another number of
\* them the program's test, count == 15, is not that test.
THEOREM ListIsRight == ASSUME NumHosts = 4 PROVE Spec => []ListingRight
<1>1. Init => ListInv /\ ListingRight
  BY InitInv
<1>2. (ListInv /\ ListingRight) /\ [Next]_vars => (ListInv /\ ListingRight)'
  BY CommandInv, AnsweredInv, ScanInv, ShowListInv, StutterInv, StutterRight DEF Next
<1> QED
  BY <1>1, <1>2, PTL DEF Spec
=============================================================================
