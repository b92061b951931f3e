--------------------------- MODULE FileCache_proofs ---------------------------
(***************************************************************************)
(* Proofs about FileCache, for any calls, responses and sizes.             *)
(*                                                                         *)
(* A block of the file is at its own offset, whatever calls overlap, and   *)
(* of a response that may be found just now (Contents), so a Get that      *)
(* decodes its blocks returns such a response.  That it cannot miss after  *)
(* an undisturbed Set takes the rest: a Set that is alone has written a    *)
(* prefix (Alone), so the file is whole when it ends (Settled), and a Get  *)
(* that then begins reads a prefix of it (Reading).                        *)
(***************************************************************************)
EXTENDS FileCache, TLAPS

\* What may be at offset i of a file or of what was read of it, if only the
\* responses of V were written.
BlockAt(i, V) == {Hole} \cup {<<v, i>> : v \in V \cap Value}

\* The first n blocks of response v.
Begun(v, n) == [i \in 1..n |-> <<v, i>>]

HistoryTyped ==
    /\ clash \subseteq Setting
    /\ stable \subseteq Value \cup {Miss}
    /\ may \in [Call -> SUBSET (Value \cup {Miss})]

Resting == \A c \in Call :
    /\ c \notin Getting => data[c] = <<>>
    /\ c \notin Getting /\ pc[c] # "write" => pos[c] = 0

\* Before the first Set no call is in the file and a Get may miss.
Fresh == file = NoFile => Miss \in stable /\ \A c \in Call : pc[c] = "idle"

Writing == \A c \in Setting :
    /\ value[c] \in stable \cap Value
    /\ pos[c] <= Size[value[c]]

Alone == \A c \in Setting \ clash :
    /\ Setting = {c}
    /\ file = Begun(value[c], pos[c])

Contents == file # NoFile => \A i \in DOMAIN file : file[i] \in BlockAt(i, stable)

Settled == Miss \notin stable =>
    /\ Setting = {}
    /\ \E v \in Value : stable = {v} /\ file = Encode(v)

Reading == \A c \in Getting :
    /\ Len(data[c]) = pos[c]
    /\ stable \subseteq may[c]
    /\ \A i \in DOMAIN data[c] : data[c][i] \in BlockAt(i, may[c])
    /\ Miss \notin may[c] =>
         /\ pos[c] <= Len(file)
         /\ \A i \in 1..pos[c] : data[c][i] = file[i]

IInv ==
    /\ TypeOK /\ HistoryTyped
    /\ Resting /\ Fresh /\ Writing /\ Alone
    /\ Contents /\ Settled /\ Reading

-----------------------------------------------------------------------------
LEMMA FileTyped ==
    ASSUME TypeOK
    PROVE  file # NoFile =>
             file \in Seq(Block) /\ Len(file) \in Nat /\ DOMAIN file = 1..Len(file)
  BY DEF TypeOK

\* What a call's change of place does to the two sets of the abstract cache.
LEMMA Moved ==
    ASSUME pc \in [Call -> {"idle", "encode", "write", "read"}],
           NEW c \in Call, NEW x \in {"idle", "encode", "write", "read"},
           pc' = [pc EXCEPT ![c] = x]
    PROVE  /\ Setting' = IF x \in {"encode", "write"} THEN Setting \cup {c} ELSE Setting \ {c}
           /\ Getting' = IF x = "read" THEN Getting \cup {c} ELSE Getting \ {c}
  BY DEF Setting, Getting

LEMMA EncodeIs ==
    ASSUME NEW v \in Value
    PROVE  /\ Encode(v) = Begun(v, Size[v])
           /\ Encode(v) \in Seq(Block)
           /\ Len(Encode(v)) = Size[v] /\ Size[v] \in Nat \ {0}
           /\ DOMAIN Encode(v) = 1..Size[v]
           /\ \A i \in 1..Size[v] : Encode(v)[i] = <<v, i>> /\ Encode(v)[i] \in Block
<1>1. Size[v] \in Nat \ {0}
  BY SizeAssumption
<1>2. \A i \in 1..Size[v] : <<v, i>> \in Block
  BY <1>1 DEF Block
<1> QED
  BY <1>1, <1>2 DEF Encode, Begun

\* What decodes to a response has that response's first block at its start.
LEMMA DecodeIs ==
    ASSUME NEW blocks
    PROVE  \/ Decode(blocks) = Miss /\ \A v \in Value : blocks # Encode(v)
           \/ /\ Decode(blocks) \in Value
              /\ 1 \in DOMAIN blocks /\ blocks[1] = <<Decode(blocks), 1>>
<1>1. CASE \E v \in Value : blocks = Encode(v)
  <2>1. Decode(blocks) \in Value /\ blocks = Encode(Decode(blocks))
    BY <1>1 DEF Decode
  <2> QED
    BY <2>1, EncodeIs
<1> QED
  BY <1>1 DEF Decode

LEMMA MoreBlocks ==
    ASSUME NEW V, NEW W, V \subseteq W, NEW i
    PROVE  BlockAt(i, V) \subseteq BlockAt(i, W)
  BY DEF BlockAt

-----------------------------------------------------------------------------
LEMMA InitHolds == Init => IInv
<1> SUFFICES ASSUME Init PROVE IInv
  OBVIOUS
<1> USE DEF Init, Register!Init
<1>1. Setting = {} /\ Getting = {}
  BY DEF Setting, Getting
<1> QED
  BY <1>1 DEF IInv, TypeOK, HistoryTyped, Resting, Fresh, Writing, Alone, Contents,
     Settled, Reading

LEMMA Stutters == IInv /\ UNCHANGED vars => IInv'
<1> SUFFICES ASSUME IInv, UNCHANGED vars PROVE IInv'
  OBVIOUS
<1>1. UNCHANGED <<file, pc, value, pos, data, result, clash, stable, may>>
  BY DEF vars, callVars, history
<1>2. Setting' = Setting /\ Getting' = Getting
  BY <1>1 DEF Setting, Getting
<1> QED
  BY <1>1, <1>2 DEF IInv, TypeOK, HistoryTyped, Resting, Fresh, Writing, Alone, Contents,
     Settled, Reading

\* A Set begins.
LEMMA CreateStep ==
    ASSUME IInv, NEW c \in Call, NEW v \in Value, Create(c, v)
    PROVE  IInv'
<1> USE DEF IInv
<1>1. /\ pc[c] = "idle" /\ pc' = [pc EXCEPT ![c] = "encode"] /\ file' = <<>>
      /\ value' = [value EXCEPT ![c] = v]
      /\ UNCHANGED <<pos, data, result>>
      /\ stable' = {v, Miss} \cup (IF Setting = {} THEN {} ELSE stable)
      /\ may' = [g \in Call |-> IF g \in Getting THEN may[g] \cup {v, Miss} ELSE may[g]]
      /\ clash' = IF Setting = {} THEN {} ELSE Setting \cup {c}
  BY DEF Create, Register!SetBegins
<1>2. Setting' = Setting \cup {c} /\ Getting' = Getting /\ c \notin Setting \cup Getting
  BY <1>1, Moved DEF TypeOK, Setting, Getting
<1>3. Len(<<>>) = 0 /\ <<>> \in Seq(Block) /\ DOMAIN <<>> = {} /\ file' # NoFile
  <2>1. Len(<<>>) = 0 /\ <<>> \in Seq(Block) /\ DOMAIN <<>> = {}
    OBVIOUS
  <2> QED
    BY <1>1, <2>1, BlockAssumption
<1>4. pos[c] = 0 /\ pos[c] <= Size[v] /\ 0 <= Size[v]
  BY <1>1, <1>2, SizeAssumption DEF Resting
<1>5. TypeOK'
  BY <1>1, <1>3, <1>4 DEF TypeOK
<1>6. HistoryTyped'
  BY <1>1, <1>2 DEF HistoryTyped
<1>7. Resting' /\ Fresh'
  BY <1>1, <1>2, <1>3 DEF Resting, Fresh, TypeOK
<1>8. Writing'
  BY <1>1, <1>2, <1>4 DEF Writing, TypeOK
<1>9. Alone'
  <2>1. Setting # {} => Setting' \ clash' = {}
    BY <1>1, <1>2
  <2>2. Setting = {} => Setting' = {c} /\ value'[c] = v /\ pos'[c] = 0 /\ file' = <<>>
    BY <1>1, <1>2, <1>4 DEF TypeOK
  <2>3. Begun(v, 0) = <<>>
    BY DEF Begun
  <2> QED
    BY <2>1, <2>2, <2>3 DEF Alone
<1>10. Contents' /\ Settled'
  BY <1>1, <1>3 DEF Contents, Settled
<1>11. Reading'
  <2> SUFFICES ASSUME NEW g \in Getting
               PROVE  /\ Len(data[g]) = pos[g]
                      /\ stable' \subseteq may'[g] /\ Miss \in may'[g]
                      /\ \A i \in DOMAIN data[g] : data[g][i] \in BlockAt(i, may'[g])
    BY <1>1, <1>2 DEF Reading
  <2>1. g \in Call /\ may'[g] = may[g] \cup {v, Miss}
    BY <1>1 DEF Getting
  <2> QED
    BY <1>1, <2>1, MoreBlocks DEF Reading
<1> QED
  BY <1>5, <1>6, <1>7, <1>8, <1>9, <1>10, <1>11

\* A Set ends, in success or not, and its call is idle.  What is left to show is
\* what the file is.
LEMMA SetLeaves ==
    ASSUME IInv, NEW c \in Setting,
           pc' = [pc EXCEPT ![c] = "idle"], value' = [value EXCEPT ![c] = Miss],
           pos' = [pos EXCEPT ![c] = 0], data' = [data EXCEPT ![c] = <<>>],
           clash' = clash \ {c}, stable' = stable \/ (c \notin clash /\ stable' = {value[c]}),
           stable' # stable => pos[c] = Size[value[c]],
           UNCHANGED <<file, result, may>>
    PROVE  IInv'
<1> USE DEF IInv
<1>1. c \in Call /\ Setting' = Setting \ {c} /\ Getting' = Getting /\ c \notin Getting
  BY Moved DEF TypeOK, Setting, Getting
<1>2. value[c] \in stable \cap Value /\ stable' \subseteq stable
  BY DEF Writing
<1>3. TypeOK'
  BY <1>1, FileTyped DEF TypeOK
<1>4. HistoryTyped'
  BY <1>1, <1>2 DEF HistoryTyped
<1>5. Resting' /\ Fresh'
  BY <1>1 DEF Resting, Fresh, TypeOK, Setting
<1>6. stable' # stable => Setting' = {} /\ file = Encode(value[c])
  BY <1>1, <1>2, EncodeIs DEF Alone
<1>7. Writing' /\ Alone'
  <2> SUFFICES ASSUME NEW d \in Setting \ {c}
               PROVE  /\ value[d] \in stable' \cap Value /\ pos[d] <= Size[value[d]]
                      /\ d \in clash
    BY <1>1 DEF Writing, Alone, TypeOK
  <2>1. d \in clash
    BY DEF Alone
  <2>2. stable' = stable
    BY <1>1, <1>6
  <2> QED
    BY <2>1, <2>2 DEF Writing
<1>8. Contents'
  <2>1. CASE stable' = stable
    BY <2>1 DEF Contents
  <2>2. CASE stable' # stable
    <3>1. file = Encode(value[c]) /\ stable' = {value[c]}
      BY <1>6, <2>2
    <3> QED
      BY <1>2, <3>1, EncodeIs DEF Contents, BlockAt
  <2> QED
    BY <2>1, <2>2
<1>9. Settled'
  <2>1. CASE stable' = stable
    BY <1>1, <2>1 DEF Settled
  <2>2. CASE stable' # stable
    BY <1>2, <1>6, <2>2 DEF Settled
  <2> QED
    BY <2>1, <2>2
<1>10. Reading'
  BY <1>1, <1>2 DEF Reading, TypeOK, Getting
<1> QED
  BY <1>3, <1>4, <1>5, <1>7, <1>8, <1>9, <1>10

LEMMA SetStep ==
    ASSUME IInv, NEW c \in Call, EncodeStep(c) \/ SetReturns(c) \/ WriteFails(c)
    PROVE  IInv'
<1>1. CASE pc[c] = "encode" /\ pc' = [pc EXCEPT ![c] = "write"]
           /\ UNCHANGED <<file, value, pos, data, result, history>>
  <2>1. c \in Setting /\ Setting' = Setting /\ Getting' = Getting
    BY <1>1, Moved DEF IInv, TypeOK, Setting, Getting
  <2>2. TypeOK' /\ HistoryTyped' /\ Resting' /\ Fresh'
    BY <1>1, <2>1 DEF IInv, TypeOK, HistoryTyped, Resting, Fresh, history
  <2>3. Writing' /\ Alone' /\ Contents' /\ Settled' /\ Reading'
    BY <1>1, <2>1 DEF IInv, Writing, Alone, Contents, Settled, Reading, history
  <2> QED
    BY <2>2, <2>3 DEF IInv
<1>2. CASE /\ pc[c] = "encode" /\ pc' = [pc EXCEPT ![c] = "idle"]
           /\ value' = [value EXCEPT ![c] = Miss]
           /\ Register!SetFails(c)
           /\ UNCHANGED <<file, pos, data, result>>
  <2>1. c \in Setting /\ c \notin Getting
    BY <1>2 DEF Setting, Getting
  <2>2. pos' = [pos EXCEPT ![c] = 0] /\ data' = [data EXCEPT ![c] = <<>>]
    BY <1>2, <2>1 DEF IInv, Resting, TypeOK
  <2>3. clash' = clash \ {c} /\ UNCHANGED <<file, stable, result, may>>
    BY <1>2 DEF Register!SetFails
  <2> QED
    BY <1>2, <2>1, <2>2, <2>3, SetLeaves
<1>3. CASE SetReturns(c)
  <2>1. c \in Setting /\ pos[c] = Size[value[c]]
    BY <1>3 DEF SetReturns, Setting
  <2>2. /\ pc' = [pc EXCEPT ![c] = "idle"] /\ value' = [value EXCEPT ![c] = Miss]
        /\ pos' = [pos EXCEPT ![c] = 0] /\ data' = [data EXCEPT ![c] = <<>>]
        /\ clash' = clash \ {c} /\ UNCHANGED <<file, result, may>>
        /\ stable' = IF c \in clash THEN stable ELSE {value[c]}
    BY <1>3 DEF SetReturns, Leave, Register!SetEnds
  <2>3. stable' = stable \/ (c \notin clash /\ stable' = {value[c]})
    BY <2>2
  <2> QED
    BY <2>1, <2>2, <2>3, SetLeaves
<1>4. CASE WriteFails(c)
  <2>1. c \in Setting
    BY <1>4 DEF WriteFails, Setting
  <2>2. /\ pc' = [pc EXCEPT ![c] = "idle"] /\ value' = [value EXCEPT ![c] = Miss]
        /\ pos' = [pos EXCEPT ![c] = 0] /\ data' = [data EXCEPT ![c] = <<>>]
        /\ clash' = clash \ {c} /\ UNCHANGED <<file, stable, result, may>>
    BY <1>4 DEF WriteFails, Leave, Register!SetFails
  <2> QED
    BY <2>1, <2>2, SetLeaves
<1> QED
  BY <1>1, <1>2, <1>3, <1>4 DEF EncodeStep

LEMMA WriteStep ==
    ASSUME IInv, NEW c \in Call, WriteBlock(c)
    PROVE  IInv'
<1> USE DEF IInv
<1>1. /\ pc[c] = "write" /\ pos[c] < Size[value[c]]
      /\ file' = WithBlock(file, pos[c], Encode(value[c])[pos[c] + 1])
      /\ pos' = [pos EXCEPT ![c] = @ + 1]
      /\ UNCHANGED <<pc, value, data, result, clash, stable, may>>
  BY DEF WriteBlock, history
<1>2. c \in Setting /\ Setting' = Setting /\ Getting' = Getting /\ c \notin Getting
  BY <1>1 DEF Setting, Getting
<1> DEFINE n == pos[c]  v == value[c]
<1>3. /\ n \in Nat /\ v \in stable \cap Value /\ n + 1 \in 1..Size[v] /\ Miss \in stable
      /\ n < Size[v] /\ n + 1 <= Size[v] /\ pos'[c] = n + 1
  <2>1. n \in Nat /\ v \in stable \cap Value /\ pos'[c] = n + 1
    BY <1>1, <1>2 DEF TypeOK, Writing
  <2>2. n + 1 \in 1..Size[v] /\ n < Size[v] /\ n + 1 <= Size[v]
    BY <1>1, <2>1, SizeAssumption
  <2> QED
    BY <1>2, <2>1, <2>2 DEF Settled
<1>4. Encode(v)[n + 1] = <<v, n + 1>> /\ <<v, n + 1>> \in Block
  BY <1>3, EncodeIs
<1>5. file # NoFile /\ file \in Seq(Block) /\ DOMAIN file = 1..Len(file) /\ Len(file) \in Nat
  <2>1. file # NoFile
    BY <1>1 DEF Fresh
  <2> QED
    BY <2>1, FileTyped
<1>6. /\ file' \in Seq(Block)
      /\ Len(file') = IF n + 1 > Len(file) THEN n + 1 ELSE Len(file)
      /\ DOMAIN file' = 1..Len(file')
      /\ file'[n + 1] = <<v, n + 1>>
      /\ \A i \in DOMAIN file' : i # n + 1 =>
           file'[i] = IF i \in DOMAIN file THEN file[i] ELSE Hole
  <2> DEFINE length == IF n + 1 > Len(file) THEN n + 1 ELSE Len(file)
  <2>1. length \in Nat /\ n + 1 \in 1..length
    BY <1>3, <1>5
  <2>2. file' = [i \in 1..length |-> IF i = n + 1 THEN <<v, n + 1>>
                                     ELSE IF i <= Len(file) THEN file[i] ELSE Hole]
    BY <1>1, <1>4 DEF WithBlock
  <2> HIDE DEF n, v, length
  <2>3. \A i \in 1..length : file'[i] = IF i = n + 1 THEN <<v, n + 1>>
                                         ELSE IF i <= Len(file) THEN file[i] ELSE Hole
    BY <2>2
  <2>4. \A i \in 1..length : file'[i] \in Block
    <3> SUFFICES ASSUME NEW i \in 1..length PROVE file'[i] \in Block
      OBVIOUS
    <3>1. i <= Len(file) => file[i] \in Block
      BY <1>5
    <3>2. Hole \in Block
      BY DEF Block
    <3> QED
      BY <1>4, <2>3, <3>1, <3>2
  <2>5. file' \in Seq(Block) /\ Len(file') = length /\ DOMAIN file' = 1..length
    BY <2>1, <2>2, <2>4
  <2> QED
    BY <1>5, <2>1, <2>3, <2>5 DEF length
<1>7. file' # NoFile
  BY <1>6, BlockAssumption
<1> HIDE DEF n, v
<1>8. TypeOK'
  <2>1. \E w \in Value : Len(file') <= Size[w]
    BY <1>3, <1>5, <1>6 DEF TypeOK
  <2> QED
    BY <1>1, <1>6, <2>1 DEF TypeOK
<1>9. HistoryTyped' /\ Resting' /\ Fresh'
  BY <1>1, <1>2, <1>7 DEF HistoryTyped, Resting, Fresh, TypeOK
<1>10. Writing'
  <2> SUFFICES ASSUME NEW d \in Setting
               PROVE  value[d] \in stable \cap Value /\ pos'[d] <= Size[value[d]]
    BY <1>1, <1>2 DEF Writing
  <2>1. CASE d = c
    BY <1>3, <2>1 DEF v
  <2>2. CASE d # c
    BY <1>1, <2>2 DEF Writing, TypeOK, Setting
  <2> QED
    BY <2>1, <2>2
<1>11. Alone'
  <2> SUFFICES ASSUME NEW d \in Setting \ clash
               PROVE  Setting = {d} /\ file' = Begun(value[d], pos'[d])
    BY <1>1, <1>2 DEF Alone
  <2>1. Setting = {d} /\ d = c /\ file = Begun(v, n)
    BY <1>2 DEF Alone, n, v
  <2>2. Len(file) = n /\ \A i \in 1..n : file[i] = <<v, i>>
    BY <1>3, <1>5, <2>1 DEF Begun
  <2>3. Len(file') = n + 1 /\ \A i \in 1..(n + 1) : file'[i] = <<v, i>>
    BY <1>3, <1>5, <1>6, <2>2
  <2>4. file' = [i \in 1..(n + 1) |-> file'[i]]
    BY <1>3, <1>6, <2>3
  <2> QED
    BY <1>3, <2>1, <2>3, <2>4 DEF Begun, v
<1>12. Contents'
  <2> SUFFICES ASSUME NEW i \in DOMAIN file'
               PROVE  file'[i] \in BlockAt(i, stable)
    BY <1>1 DEF Contents
  <2>1. CASE i = n + 1
    BY <1>3, <1>6, <2>1 DEF BlockAt
  <2>2. CASE i # n + 1 /\ i \in DOMAIN file
    BY <1>5, <1>6, <2>2 DEF Contents
  <2>3. CASE i # n + 1 /\ i \notin DOMAIN file
    BY <1>6, <2>3 DEF BlockAt
  <2> QED
    BY <2>1, <2>2, <2>3
<1>13. Settled'
  BY <1>1, <1>3 DEF Settled
<1>14. Reading'
  <2> SUFFICES ASSUME NEW g \in Getting
               PROVE  /\ Len(data[g]) = pos'[g]
                      /\ stable \subseteq may[g] /\ Miss \in may[g]
                      /\ \A i \in DOMAIN data[g] : data[g][i] \in BlockAt(i, may[g])
    BY <1>1, <1>2 DEF Reading
  <2>1. g # c /\ g \in Call /\ pos'[g] = pos[g]
    BY <1>1, <1>2 DEF TypeOK, Getting
  <2> QED
    BY <1>3, <2>1 DEF Reading
<1> QED
  BY <1>8, <1>9, <1>10, <1>11, <1>12, <1>13, <1>14

\* A Get begins, or ends at once.
LEMMA OpenStep ==
    ASSUME IInv, NEW c \in Call, Open(c) \/ NoEntry(c) \/ OpenFails(c)
    PROVE  IInv'
<1>1. CASE Open(c)
  <2>1. /\ pc[c] = "idle" /\ file # NoFile /\ pc' = [pc EXCEPT ![c] = "read"]
        /\ may' = [may EXCEPT ![c] = stable]
        /\ UNCHANGED <<file, value, pos, data, result, clash, stable>>
    BY <1>1 DEF Open, Register!GetBegins
  <2>2. /\ Setting' = Setting /\ Getting' = Getting \cup {c} /\ c \notin Setting \cup Getting
        /\ data[c] = <<>> /\ pos[c] = 0
    BY <2>1, Moved DEF IInv, TypeOK, Setting, Getting, Resting
  <2>3. TypeOK' /\ HistoryTyped' /\ Resting' /\ Fresh'
    BY <2>1, <2>2 DEF IInv, TypeOK, HistoryTyped, Resting, Fresh
  <2>4. Writing' /\ Alone' /\ Contents' /\ Settled'
    BY <2>1, <2>2 DEF IInv, Writing, Alone, Contents, Settled
  <2>5. Reading'
    <3> SUFFICES ASSUME NEW g \in Getting \cup {c}
                 PROVE  /\ Len(data[g]) = pos[g]
                        /\ stable \subseteq may'[g]
                        /\ \A i \in DOMAIN data[g] : data[g][i] \in BlockAt(i, may'[g])
                        /\ Miss \notin may'[g] =>
                             /\ pos[g] <= Len(file)
                             /\ \A i \in 1..pos[g] : data[g][i] = file[i]
      BY <2>1, <2>2 DEF Reading
    <3>1. CASE g = c
      <4>1. may'[g] = stable
        BY <2>1, <3>1 DEF IInv, HistoryTyped
      <4>2. Len(data[g]) = 0 /\ DOMAIN data[g] = {} /\ pos[g] = 0 /\ 0 <= Len(file)
        BY <2>1, <2>2, <3>1, FileTyped DEF IInv
      <4> QED
        BY <4>1, <4>2
    <3>2. CASE g # c
      BY <2>1, <3>2 DEF IInv, Reading, HistoryTyped, Getting
    <3> QED
      BY <3>1, <3>2
  <2> QED
    BY <2>3, <2>4, <2>5 DEF IInv
<1>2. CASE NoEntry(c) \/ OpenFails(c)
  <2>1. /\ result' \in [Call -> Value \cup {Miss, Failed}]
        /\ UNCHANGED <<file, pc, value, pos, data, clash, stable, may>>
    BY <1>2 DEF NoEntry, OpenFails, IInv, TypeOK, history
  <2>2. Setting' = Setting /\ Getting' = Getting
    BY <2>1 DEF Setting, Getting
  <2> QED
    BY <2>1, <2>2 DEF IInv, TypeOK, HistoryTyped, Resting, Fresh, Writing, Alone,
       Contents, Settled, Reading
<1> QED
  BY <1>1, <1>2

LEMMA ReadStep ==
    ASSUME IInv, NEW c \in Call, ReadBlock(c)
    PROVE  IInv'
<1>1. /\ pc[c] = "read" /\ pos[c] < Len(file)
      /\ data' = [data EXCEPT ![c] = Append(@, file[pos[c] + 1])]
      /\ pos' = [pos EXCEPT ![c] = @ + 1]
      /\ UNCHANGED <<file, pc, value, result, clash, stable, may>>
  BY DEF ReadBlock, history
<1>2. /\ c \in Getting /\ c \notin Setting /\ Setting' = Setting /\ Getting' = Getting
  BY <1>1 DEF Setting, Getting
<1> DEFINE n == pos[c]  b == file[pos[c] + 1]
<1>3. file # NoFile /\ file \in Seq(Block) /\ DOMAIN file = 1..Len(file) /\ Len(file) \in Nat
  <2>1. file # NoFile
    BY <1>1 DEF IInv, Fresh
  <2> QED
    BY <2>1, FileTyped DEF IInv
<1>4. n \in Nat /\ n + 1 \in DOMAIN file /\ b \in Block /\ b \in BlockAt(n + 1, stable)
      /\ n < Len(file)
  <2>1. n \in Nat /\ n + 1 \in DOMAIN file /\ n < Len(file)
    BY <1>1, <1>3 DEF IInv, TypeOK
  <2> QED
    BY <1>3, <2>1 DEF IInv, Contents
<1>5. /\ data[c] \in Seq(Block) /\ Len(data[c]) = n /\ DOMAIN data[c] = 1..n
      /\ data'[c] = Append(data[c], b) /\ pos'[c] = n + 1
  BY <1>1, <1>2 DEF IInv, TypeOK, Reading
<1> HIDE DEF n, b
<1>6. /\ data'[c] \in Seq(Block) /\ Len(data'[c]) = n + 1 /\ DOMAIN data'[c] = 1..(n + 1)
      /\ data'[c][n + 1] = b /\ \A i \in 1..n : data'[c][i] = data[c][i]
  BY <1>4, <1>5
<1>7. TypeOK'
  <2>1. data' \in [Call -> Seq(Block)]
    BY <1>1, <1>6 DEF IInv, TypeOK
  <2> QED
    BY <1>1, <2>1 DEF IInv, TypeOK
<1>8. HistoryTyped' /\ Resting' /\ Fresh'
  BY <1>1, <1>2 DEF IInv, HistoryTyped, Resting, Fresh, TypeOK
<1>9. Writing' /\ Alone' /\ Contents' /\ Settled'
  BY <1>1, <1>2 DEF IInv, Writing, Alone, Contents, Settled, TypeOK, Setting
<1>10. Reading'
  <2> SUFFICES ASSUME NEW g \in Getting
               PROVE  /\ Len(data'[g]) = pos'[g]
                      /\ stable \subseteq may[g]
                      /\ \A i \in DOMAIN data'[g] : data'[g][i] \in BlockAt(i, may[g])
                      /\ Miss \notin may[g] =>
                           /\ pos'[g] <= Len(file)
                           /\ \A i \in 1..pos'[g] : data'[g][i] = file[i]
    BY <1>1, <1>2 DEF Reading
  <2>1. CASE g # c
    <3>1. data'[g] = data[g] /\ pos'[g] = pos[g]
      BY <1>1, <2>1 DEF IInv, TypeOK, Getting
    <3> QED
      BY <3>1 DEF IInv, Reading
  <2>2. CASE g = c
    <3>1. Len(data'[c]) = pos'[c] /\ stable \subseteq may[c]
      BY <1>2, <1>5, <1>6 DEF IInv, Reading
    <3>2. ASSUME NEW i \in 1..(n + 1)
          PROVE  data'[c][i] \in BlockAt(i, may[c])
      <4>1. CASE i = n + 1
        BY <1>4, <1>6, <3>1, <4>1, MoreBlocks
      <4>2. CASE i # n + 1
        BY <1>2, <1>4, <1>5, <1>6, <4>2 DEF IInv, Reading
      <4> QED
        BY <4>1, <4>2
    <3>3. ASSUME Miss \notin may[c], NEW i \in 1..(n + 1)
          PROVE  data'[c][i] = file[i]
      <4>1. CASE i = n + 1
        BY <1>6, <4>1 DEF b, n
      <4>2. CASE i # n + 1
        BY <1>2, <1>4, <1>6, <3>3, <4>2 DEF IInv, Reading, n
      <4> QED
        BY <4>1, <4>2
    <3>4. n + 1 <= Len(file)
      BY <1>3, <1>4
    <3> QED
      BY <1>5, <1>6, <2>2, <3>1, <3>2, <3>3, <3>4
  <2> QED
    BY <2>1, <2>2
<1> QED
  BY <1>7, <1>8, <1>9, <1>10 DEF IInv

\* A Get ends, whatever it returns.
LEMMA GetEndsStep ==
    ASSUME IInv, NEW c \in Call, ReadFails(c) \/ GetReturns(c)
    PROVE  IInv'
<1>1. /\ pc[c] = "read" /\ pc' = [pc EXCEPT ![c] = "idle"]
      /\ value' = [value EXCEPT ![c] = Miss] /\ pos' = [pos EXCEPT ![c] = 0]
      /\ data' = [data EXCEPT ![c] = <<>>]
      /\ \E r \in {Decode(data[c]), Failed} : result' = [result EXCEPT ![c] = r]
      /\ may' = [may EXCEPT ![c] = {}]
      /\ UNCHANGED <<file, clash, stable>>
  BY DEF ReadFails, GetReturns, Leave, Register!GetEnds
<1>2. Setting' = Setting /\ Getting' = Getting \ {c} /\ c \in Getting /\ c \notin Setting
  BY <1>1, Moved DEF IInv, TypeOK, Setting, Getting
<1>3. file # NoFile
  BY <1>1 DEF IInv, Fresh
<1>4. Decode(data[c]) \in Value \cup {Miss}
  BY DecodeIs
<1>5. TypeOK'
  BY <1>1, <1>4 DEF IInv, TypeOK
<1>6. HistoryTyped' /\ Resting' /\ Fresh'
  BY <1>1, <1>2, <1>3 DEF IInv, HistoryTyped, Resting, Fresh, TypeOK
<1>7. Writing' /\ Alone' /\ Contents' /\ Settled'
  BY <1>1, <1>2 DEF IInv, Writing, Alone, Contents, Settled, TypeOK, Setting
<1>8. Reading'
  BY <1>1, <1>2 DEF IInv, Reading, TypeOK, HistoryTyped, Getting
<1> QED
  BY <1>5, <1>6, <1>7, <1>8 DEF IInv

LEMMA CrashStep ==
    ASSUME IInv, Crash
    PROVE  IInv'
<1>1. Setting' = {} /\ Getting' = {}
  BY DEF Crash, Setting, Getting
<1>2. TypeOK' /\ HistoryTyped' /\ Resting' /\ Fresh'
  BY <1>1 DEF IInv, TypeOK, HistoryTyped, Resting, Fresh, Crash, Register!AllStop
<1>3. Writing' /\ Alone' /\ Contents' /\ Settled' /\ Reading'
  BY <1>1 DEF IInv, Writing, Alone, Contents, Settled, Reading, Crash, Register!AllStop
<1> QED
  BY <1>2, <1>3 DEF IInv

LEMMA NextStep == IInv /\ [Next]_vars => IInv'
<1> SUFFICES ASSUME IInv, [Next]_vars PROVE IInv'
  OBVIOUS
<1>1. ASSUME NEW c \in Call, NEW v \in Value, Create(c, v) PROVE IInv'
  BY <1>1, CreateStep
<1>2. ASSUME NEW c \in Call, EncodeStep(c) \/ SetReturns(c) \/ WriteFails(c) PROVE IInv'
  BY <1>2, SetStep
<1>3. ASSUME NEW c \in Call, WriteBlock(c) PROVE IInv'
  BY <1>3, WriteStep
<1>4. ASSUME NEW c \in Call, NoEntry(c) \/ OpenFails(c) \/ Open(c) PROVE IInv'
  BY <1>4, OpenStep
<1>5. ASSUME NEW c \in Call, ReadBlock(c) PROVE IInv'
  BY <1>5, ReadStep
<1>6. ASSUME NEW c \in Call, ReadFails(c) \/ GetReturns(c) PROVE IInv'
  BY <1>6, GetEndsStep
<1>7. CASE Crash
  BY <1>7, CrashStep
<1>8. CASE UNCHANGED vars
  BY <1>8, Stutters
<1> QED
  BY <1>1, <1>2, <1>3, <1>4, <1>5, <1>6, <1>7, <1>8 DEF Next

-----------------------------------------------------------------------------
(***************************************************************************)
(* Every step is a step of the abstract cache, or none of it.              *)
(***************************************************************************)
LEMMA RegisterSetStep ==
    ASSUME IInv, NEW c \in Call,
           \/ \E v \in Value : Create(c, v)
           \/ EncodeStep(c) \/ WriteBlock(c) \/ SetReturns(c) \/ WriteFails(c)
    PROVE  Register!Next \/ UNCHANGED Register!vars
<1>1. ASSUME NEW v \in Value, Create(c, v)
      PROVE  Register!BeginSet(c)
  <2>1. pc[c] = "idle" /\ pc' = [pc EXCEPT ![c] = "encode"] /\ result' = result
    BY <1>1 DEF Create
  <2>2. Setting' = Setting \cup {c} /\ Getting' = Getting /\ c \notin Setting \cup Getting
    BY <2>1, Moved DEF IInv, TypeOK, Setting, Getting
  <2> QED
    BY <1>1, <2>1, <2>2 DEF Create, Register!BeginSet, Register!Idle
<1>2. ASSUME pc[c] \in {"encode", "write"}, pc' = [pc EXCEPT ![c] = "idle"], result' = result,
             Register!SetFails(c) \/ Register!SetEnds(c, value[c])
      PROVE  Register!EndSet(c)
  <2>1. c \in Setting /\ Setting' = Setting \ {c} /\ Getting' = Getting
    BY <1>2, Moved DEF IInv, TypeOK, Setting, Getting
  <2>2. value[c] \in stable \ {Miss}
    BY <2>1, SizeAssumption DEF IInv, Writing
  <2> QED
    BY <1>2, <2>1, <2>2 DEF Register!EndSet
<1>3. CASE EncodeStep(c)
  <2>1. CASE pc' = [pc EXCEPT ![c] = "write"] /\ UNCHANGED history
    <3>1. Setting' = Setting /\ Getting' = Getting
      BY <1>3, <2>1, Moved DEF EncodeStep, IInv, TypeOK, Setting, Getting
    <3> QED
      BY <1>3, <2>1, <3>1 DEF EncodeStep, Register!vars, history
  <2>2. CASE pc' = [pc EXCEPT ![c] = "idle"] /\ Register!SetFails(c)
    <3>1. Register!EndSet(c)
      BY <1>2, <1>3, <2>2 DEF EncodeStep
    <3> QED
      BY <3>1 DEF Register!Next
  <2> QED
    BY <1>3, <2>1, <2>2 DEF EncodeStep
<1>4. CASE WriteBlock(c)
  BY <1>4 DEF WriteBlock, Register!vars, history, Setting, Getting
<1>5. CASE SetReturns(c)
  <2>1. Register!EndSet(c)
    BY <1>2, <1>5 DEF SetReturns, Leave
  <2> QED
    BY <2>1 DEF Register!Next
<1>6. CASE WriteFails(c)
  <2>1. Register!EndSet(c)
    BY <1>2, <1>6 DEF WriteFails, Leave
  <2> QED
    BY <2>1 DEF Register!Next
<1> QED
  BY <1>1, <1>3, <1>4, <1>5, <1>6 DEF Register!Next

\* What a Get has decoded it may return.
LEMMA DecodedMay ==
    ASSUME IInv, NEW c \in Getting, pos[c] >= Len(file)
    PROVE  Decode(data[c]) \in may[c]
<1>1. /\ c \in Call /\ data[c] \in Seq(Block) /\ DOMAIN data[c] = 1..pos[c] /\ pos[c] \in Nat
      /\ Len(data[c]) = pos[c]
  BY DEF IInv, TypeOK, Reading, Getting
<1>2. CASE Decode(data[c]) \in Value /\ 1 \in DOMAIN data[c]
           /\ data[c][1] = <<Decode(data[c]), 1>>
  <2>1. data[c][1] \in BlockAt(1, may[c])
    BY <1>2 DEF IInv, Reading
  <2>2. data[c][1] # Hole
    BY <1>2, BlockAssumption
  <2> QED
    BY <1>2, <2>1, <2>2 DEF BlockAt
<1>3. CASE Decode(data[c]) = Miss /\ \A v \in Value : data[c] # Encode(v)
  <2> SUFFICES ASSUME Miss \notin may[c] PROVE FALSE
    BY <1>3
  <2>1. PICK v \in Value : file = Encode(v)
    BY DEF IInv, Reading, Settled
  <2>2. Len(file) = Size[v] /\ Size[v] \in Nat
    BY <2>1, EncodeIs
  <2>3. pos[c] = Size[v] /\ \A i \in 1..pos[c] : data[c][i] = file[i]
    BY <1>1, <2>2 DEF IInv, Reading
  <2>4. data[c] = [i \in 1..pos[c] |-> data[c][i]]
    BY <1>1
  <2>5. data[c] = Encode(v)
    BY <2>1, <2>3, <2>4, EncodeIs DEF Encode
  <2> QED
    BY <1>3, <2>5
<1> QED
  BY <1>2, <1>3, DecodeIs

LEMMA RegisterGetStep ==
    ASSUME IInv, NEW c \in Call,
           \/ NoEntry(c) \/ OpenFails(c) \/ Open(c)
           \/ ReadBlock(c) \/ ReadFails(c) \/ GetReturns(c)
    PROVE  Register!Next \/ UNCHANGED Register!vars
<1>1. CASE NoEntry(c) \/ OpenFails(c)
  <2>1. /\ pc[c] = "idle" /\ UNCHANGED <<pc, clash, stable, may>>
        /\ \E r \in {Miss, Failed} : /\ r = Miss => file = NoFile
                                     /\ result' = [result EXCEPT ![c] = r]
    BY <1>1, SizeAssumption DEF NoEntry, OpenFails, history
  <2>2. \E r \in stable \cup {Failed} : result' = [result EXCEPT ![c] = r]
    BY <2>1 DEF IInv, Fresh
  <2>3. Setting' = Setting /\ Getting' = Getting /\ c \notin Setting \cup Getting
    BY <2>1 DEF Setting, Getting
  <2>4. Register!GetAtOnce(c)
    BY <2>1, <2>2, <2>3 DEF Register!GetAtOnce, Register!Idle, Register!history
  <2> QED
    BY <2>4 DEF Register!Next
<1>2. CASE Open(c)
  <2>1. pc[c] = "idle" /\ pc' = [pc EXCEPT ![c] = "read"] /\ result' = result
    BY <1>2 DEF Open
  <2>2. Setting' = Setting /\ Getting' = Getting \cup {c} /\ c \notin Setting \cup Getting
    BY <2>1, Moved DEF IInv, TypeOK, Setting, Getting
  <2>3. Register!BeginGet(c)
    BY <1>2, <2>1, <2>2 DEF Open, Register!BeginGet, Register!Idle
  <2> QED
    BY <2>3 DEF Register!Next
<1>3. CASE ReadBlock(c)
  BY <1>3 DEF ReadBlock, Register!vars, history, Setting, Getting
<1>4. CASE ReadFails(c) \/ GetReturns(c)
  <2>1. /\ pc[c] = "read" /\ pc' = [pc EXCEPT ![c] = "idle"] /\ Register!GetEnds(c)
        /\ \/ result' = [result EXCEPT ![c] = Failed]
           \/ pos[c] >= Len(file) /\ result' = [result EXCEPT ![c] = Decode(data[c])]
    BY <1>4 DEF ReadFails, GetReturns, Leave
  <2>2. Setting' = Setting /\ Getting' = Getting \ {c} /\ c \in Getting
    BY <2>1, Moved DEF IInv, TypeOK, Setting, Getting
  <2>3. \E r \in may[c] \cup {Failed} : result' = [result EXCEPT ![c] = r]
    BY <2>1, <2>2, DecodedMay
  <2>4. Register!EndGet(c)
    BY <2>1, <2>2, <2>3 DEF Register!EndGet
  <2> QED
    BY <2>4 DEF Register!Next
<1> QED
  BY <1>1, <1>2, <1>3, <1>4

LEMMA RegisterCrashStep ==
    ASSUME Crash
    PROVE  Register!Next
<1>1. Setting' = {} /\ Getting' = {}
  BY DEF Crash, Setting, Getting
<1> QED
  BY <1>1 DEF Crash, Register!Next, Register!Restart

LEMMA RegisterStep == IInv /\ [Next]_vars => [Register!Next]_(Register!vars)
<1> SUFFICES ASSUME IInv, [Next]_vars
             PROVE  Register!Next \/ UNCHANGED Register!vars
  OBVIOUS
<1>1. CASE UNCHANGED vars
  BY <1>1 DEF vars, callVars, history, Register!vars, Setting, Getting
<1> QED
  BY <1>1, RegisterSetStep, RegisterGetStep, RegisterCrashStep DEF Next

LEMMA RegisterInit == Init => Register!Init
  BY DEF Init, Register!Init, Setting, Getting

-----------------------------------------------------------------------------
\* The inductive invariant: every block of the file is at its offset and of a
\* response that may be found, and a file that nothing has disturbed is whole.
THEOREM Invariance == Spec => []IInv
  BY InitHolds, NextStep, PTL DEF Spec

\* A file never grows beyond the longest response and every call keeps a value,
\* an offset and blocks.
THEOREM TypeCorrect == Spec => []TypeOK
<1>1. IInv => TypeOK
  BY DEF IInv
<1> QED
  BY Invariance, <1>1, PTL

\* The file implements the abstract cache: for any number of calls that overlap
\* and responses of any size, Get returns a response that was stored, whole, or an
\* error, and after a Set that was not disturbed it finds that Set's response or
\* reports an error of the operating system, which may strike at any Get.
THEOREM ImplementsRegister == Spec => CacheIsRegister
<1>1. IInv /\ [Next]_vars => [Register!Next]_(Register!vars)
  BY RegisterStep
<1> QED
  BY RegisterInit, <1>1, Invariance, PTL DEF Spec, CacheIsRegister, Register!Spec
=============================================================================
