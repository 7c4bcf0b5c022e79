--------------------------- MODULE ConfigMeProofs ---------------------------
(***************************************************************************)
(* The properties of ConfigMe for any keys, texts and files.  The          *)
(* inductive invariant adds to the properties what is known of the map in  *)
(* memory (its clear values are no secrets) and of a save in progress (the *)
(* file holds the entries written so far, each unchanged, and no others).  *)
(***************************************************************************)
EXTENDS ConfigMe, WellFoundedInduction, TLAPS

(* A value or a line that gives no secret away.                            *)
Sealed(v) == v.enc \/ v.text \notin Secrets

Typed ==
    /\ DOMAIN config \subseteq Keys
    /\ \A k \in DOMAIN config : config[k] \in Values
    /\ files \in [Files -> Seq(Lines)]
    /\ pc \in {"off", "menu", "save"}
    /\ target \in Files
    /\ todo \subseteq DOMAIN config
    /\ pc # "save" => todo = {}

AllSealed ==
    /\ \A k \in DOMAIN config : Sealed(config[k])
    /\ \A f \in Files : \A i \in DOMAIN files[f] : Sealed(files[f][i])

(* The lines of the target are those of the keys already written.          *)
SaveSoFar ==
    pc = "save" =>
        /\ \A i \in DOMAIN files[target] :
               \E k \in DOMAIN config \ todo : files[target][i] = Line(k, config[k])
        /\ \A k \in DOMAIN config \ todo :
               \E i \in DOMAIN files[target] : files[target][i] = Line(k, config[k])

IInv == Typed /\ AllSealed /\ SaveSoFar

-----------------------------------------------------------------------------
(* A non-empty set of positions has a last one: the least-number principle *)
(* for the distances to the end.                                           *)
LEMMA LastExists ==
    ASSUME NEW n \in Nat, NEW S, S \subseteq 1..n, S # {}
    PROVE  \E i \in S : \A j \in S : j <= i
<1> DEFINE R == OpToRel(<, Nat)
           T == {n - i : i \in S}
<1>1. IsWellFoundedOn(R, Nat)
  BY NatLessThanWellFounded, Zenon
<1>2. \A x, y \in Nat : y < x => <<y, x>> \in R
  BY DEF OpToRel
<1> HIDE DEF R
<1>3. T \subseteq Nat /\ T # {}
  <2>1. \A i \in S : n - i \in Nat
    OBVIOUS
  <2> QED
    BY <2>1
<1>4. \E x \in T : \A y \in T : ~(<<y, x>> \in R)
  BY <1>1, <1>3, WFMin
<1>5. PICK i \in S : \A j \in S : ~(<<n - j, n - i>> \in R)
  BY <1>4
<1>6. ASSUME NEW j \in S PROVE j <= i
  <2>1. ~(n - j < n - i)
    BY <1>2, <1>3, <1>5
  <2> QED
    BY <2>1
<1> QED
  BY <1>6

(* A loaded key stands in some line that could be parsed.                  *)
LEMMA LoadEntry ==
    ASSUME NEW lines \in Seq(Lines), NEW k \in DOMAIN load(lines)
    PROVE  \E i \in Entries(lines) :
               /\ Split(lines[i]).key = k
               /\ load(lines)[k] = deserialize(Split(lines[i]))
<1> DEFINE E == {i \in Entries(lines) : Split(lines[i]).key = k}
<1>1. E # {} /\ E \subseteq Entries(lines)
  BY DEF load
<1>2. E \subseteq 1..Len(lines) /\ Len(lines) \in Nat
  BY DEF Entries
<1>3. \E i \in E : \A j \in E : j <= i
  <2> HIDE DEF E
  <2> QED
    BY <1>1, <1>2, LastExists
<1>4. \E i \in Entries(lines) :
          /\ Split(lines[i]).key = k
          /\ \A j \in Entries(lines) : Split(lines[j]).key = k => j <= i
  BY <1>3
<1>5. LastEntry(lines, k) \in Entries(lines) /\ Split(lines[LastEntry(lines, k)]).key = k
  BY <1>4, Zenon DEF LastEntry
<1>6. load(lines)[k] = deserialize(Split(lines[LastEntry(lines, k)]))
  BY DEF load
<1> QED
  BY <1>5, <1>6

(* What splitting at the first colon makes of a line.                      *)
LEMMA SplitLine ==
    ASSUME NEW l \in Lines, Sealed(l)
    PROVE  Split(l) \in Lines /\ Split(l).key \in PlainKeys /\ Sealed(Split(l))
<1>1. CASE l.key \in ColonKeys
  <2> DEFINE h == KeyHead[l.key]
             r == KeyRest[l.key]
  <2>1. h \in PlainKeys /\ r \in AllTexts /\ r \notin Secrets
    BY <1>1, KeysAssumption, TextsAssumption DEF AllTexts
  <2>2. Split(l) = [sep |-> TRUE, key |-> h, enc |-> FALSE, text |-> r]
    BY <1>1 DEF Split, Line, Clear
  <2> HIDE DEF h, r
  <2>3. Split(l).key = h /\ Split(l).text = r
    BY <2>2
  <2>4. Split(l) \in Lines
    BY <2>1, <2>2 DEF Lines, Keys
  <2> QED
    BY <2>1, <2>3, <2>4 DEF Sealed
<1>2. CASE l.key \notin ColonKeys
  BY <1>2 DEF Split, Lines, Keys
<1> QED
  BY <1>1, <1>2

(* What deserialize() makes of it.                                         *)
LEMMA DeserializeLine ==
    ASSUME NEW l \in Lines, Sealed(l), Parses(l)
    PROVE  /\ deserialize(l) \in Values
           /\ Sealed(deserialize(l))
           /\ deserialize(l).enc \/ deserialize(l).text \notin HexLike \cup BadHex
<1>1. CASE ~l.enc /\ l.text \in HexLike
  <2>1. deserialize(l) = [enc |-> TRUE, text |-> Decrypted[l.text]]
    BY <1>1 DEF deserialize, Encrypted
  <2>2. Decrypted[l.text] \in AllTexts
    BY <1>1 DEF AllTexts
  <2>3. deserialize(l).enc
    BY <2>1
  <2>4. deserialize(l) \in Values
    BY <2>1, <2>2 DEF Values
  <2> QED
    BY <2>3, <2>4 DEF Sealed
<1>2. CASE l.enc \/ l.text \notin HexLike
  <2>1. deserialize(l) = [enc |-> l.enc, text |-> l.text]
    BY <1>2 DEF deserialize
  <2>2. deserialize(l).enc = l.enc /\ deserialize(l).text = l.text
    BY <2>1
  <2>3. deserialize(l) \in Values
    BY <2>1 DEF Values, Lines
  <2> QED
    BY <1>2, <2>2, <2>3, Zenon DEF Sealed, Parses
<1> QED
  BY <1>1, <1>2

SealedLines(lines) == lines \in Seq(Lines) /\ \A i \in DOMAIN lines : Sealed(lines[i])

LEMMA LoadResult ==
    ASSUME NEW lines, SealedLines(lines)
    PROVE  /\ DOMAIN load(lines) \subseteq PlainKeys
           /\ \A k \in DOMAIN load(lines) :
                 /\ load(lines)[k] \in Values
                 /\ Sealed(load(lines)[k])
                 /\ \/ load(lines)[k].enc
                    \/ load(lines)[k].text \notin HexLike \cup BadHex
<1>1. lines \in Seq(Lines)
  BY DEF SealedLines
<1>2. \A i \in Entries(lines) :
          lines[i] \in Lines /\ Sealed(lines[i]) /\ Parses(Split(lines[i]))
  BY <1>1 DEF SealedLines, Entries
<1> SUFFICES ASSUME NEW k \in DOMAIN load(lines)
             PROVE  /\ k \in PlainKeys
                    /\ load(lines)[k] \in Values
                    /\ Sealed(load(lines)[k])
                    /\ \/ load(lines)[k].enc
                       \/ load(lines)[k].text \notin HexLike \cup BadHex
  BY Zenon
<1>3. PICK i \in Entries(lines) :
          Split(lines[i]).key = k /\ load(lines)[k] = deserialize(Split(lines[i]))
  BY <1>1, LoadEntry
<1>4. Split(lines[i]) \in Lines /\ Split(lines[i]).key \in PlainKeys /\ Sealed(Split(lines[i]))
  BY <1>2, SplitLine
<1> QED
  BY <1>2, <1>3, <1>4, DeserializeLine, Zenon

(* A map that was loaded holds only entries that survive.                  *)
LEMMA LoadedSurvives ==
    ASSUME NEW lines, SealedLines(lines), NEW k \in DOMAIN load(lines)
    PROVE  Survives(load(lines), k)
<1>1. DOMAIN load(lines) \cap ColonKeys = {}
  BY LoadResult, KeysAssumption
<1> QED
  BY <1>1, LoadResult DEF Survives

-----------------------------------------------------------------------------
LEMMA InitIInv == Init => IInv
<1> SUFFICES ASSUME Init PROVE IInv
  OBVIOUS
<1>1. DOMAIN config = {} /\ files = [f \in Files |-> <<>>]
  BY DEF Init, NoEntries
<1>2. Typed
  BY <1>1, FilesAssumption DEF Init, Typed
<1>3. AllSealed
  BY <1>1 DEF AllSealed
<1> QED
  BY <1>2, <1>3 DEF IInv, SaveSoFar, Init

(* The steps that leave the files alone and are not inside save().         *)
LEMMA MemoryStep ==
    ASSUME IInv, UNCHANGED <<files, target>>, pc' \in {"off", "menu"},
           DOMAIN config' \subseteq Keys,
           \A k \in DOMAIN config' : config'[k] \in Values /\ Sealed(config'[k]),
           todo' = {}
    PROVE  IInv'
<1>1. Typed'
  BY DEF IInv, Typed
<1>2. AllSealed'
  BY DEF IInv, AllSealed
<1>3. SaveSoFar'
  BY DEF SaveSoFar
<1> QED
  BY <1>1, <1>2, <1>3 DEF IInv

LEMMA FileLines ==
    ASSUME IInv, NEW f \in Files
    PROVE  SealedLines(files[f])
  BY DEF IInv, Typed, AllSealed, SealedLines

LEMMA ExitStep ==
    ASSUME IInv, Exit, UNCHANGED files
    PROVE  IInv'
<1>1. DOMAIN config' = {}
  BY DEF Exit, NoEntries
<1> QED
  BY <1>1, MemoryStep DEF Exit

LEMMA LoadStep ==
    ASSUME IInv, NEW f \in Files, LoadFrom(f), pc # "save"
    PROVE  IInv'
<1>1. CASE ~Loadable(files[f])
  BY <1>1, ExitStep DEF LoadFrom
<1>2. CASE Loadable(files[f])
  <2>1. config' = load(files[f]) /\ pc' = "menu" /\ UNCHANGED <<files, target, todo>>
    BY <1>2 DEF LoadFrom
  <2>2. SealedLines(files[f])
    BY FileLines
  <2>3. DOMAIN config' \subseteq Keys
    BY <2>1, <2>2, LoadResult DEF Keys
  <2>4. \A k \in DOMAIN config' : config'[k] \in Values /\ Sealed(config'[k])
    BY <2>1, <2>2, LoadResult
  <2>5. todo' = {}
    BY <2>1 DEF IInv, Typed
  <2> QED
    BY <2>1, <2>3, <2>4, <2>5, MemoryStep
<1> QED
  BY <1>1, <1>2

(* GiveName, AddClear and AddEncrypted put one sealed value into the map.  *)
LEMMA PutStep ==
    ASSUME IInv, NEW k \in Keys, NEW v \in Values, Sealed(v),
           pc = "menu", config' = Put(config, k, v),
           UNCHANGED <<files, pc, target, todo>>
    PROVE  IInv'
<1>1. DOMAIN config' = DOMAIN config \cup {k}
  BY DEF Put
<1>2. \A x \in DOMAIN config' : config'[x] = IF x = k THEN v ELSE config[x]
  BY DEF Put
<1>3. \A x \in DOMAIN config' : config'[x] \in Values /\ Sealed(config'[x])
  BY <1>1, <1>2 DEF IInv, Typed, AllSealed
<1>4. DOMAIN config' \subseteq Keys /\ todo' = {}
  BY <1>1 DEF IInv, Typed
<1> QED
  BY <1>3, <1>4, MemoryStep

LEMMA RemoveStep ==
    ASSUME IInv, NEW k \in Keys, Remove(k)
    PROVE  IInv'
<1>1. DOMAIN config' \subseteq DOMAIN config
  BY DEF Remove, Edit
<1>2. \A x \in DOMAIN config' : config'[x] = config[x]
  BY DEF Remove, Edit
<1>3. \A x \in DOMAIN config' : config'[x] \in Values /\ Sealed(config'[x])
  BY <1>1, <1>2 DEF IInv, Typed, AllSealed
<1>4. pc' = "menu" /\ UNCHANGED <<files, target>>
  BY DEF Remove, Edit, AtMenu
<1>5. DOMAIN config' \subseteq Keys /\ todo' = {}
  BY <1>1 DEF IInv, Typed, Remove, Edit, AtMenu
<1> QED
  BY <1>3, <1>4, <1>5, MemoryStep

LEMMA SaveCreatesStep ==
    ASSUME IInv, NEW f \in Files, SaveCreates(f)
    PROVE  IInv'
<1>1. files' \in [Files -> Seq(Lines)] /\ files'[f] = <<>>
      /\ \A g \in Files : g # f => files'[g] = files[g]
  BY DEF IInv, Typed, SaveCreates
<1>2. Typed'
  BY <1>1 DEF IInv, Typed, SaveCreates
<1>3. AllSealed'
  <2>1. \A g \in Files : \A i \in DOMAIN files'[g] : Sealed(files'[g][i])
    BY <1>1 DEF IInv, AllSealed
  <2>2. UNCHANGED config
    BY DEF SaveCreates
  <2> QED
    BY <2>1, <2>2 DEF IInv, AllSealed
<1>4. SaveSoFar'
  <2>1. target' = f /\ todo' = DOMAIN config' /\ files'[target'] = <<>>
    BY <1>1 DEF SaveCreates
  <2> QED
    BY <2>1 DEF SaveSoFar
<1> QED
  BY <1>2, <1>3, <1>4 DEF IInv

(* The line of an entry belongs in a file.                                 *)
LEMMA EntryLine ==
    ASSUME NEW k \in Keys, NEW v \in Values, Sealed(v)
    PROVE  Line(k, v) \in Lines /\ Sealed(Line(k, v))
  BY DEF Line, Lines, Values, Sealed

LEMMA SaveWritesStep ==
    ASSUME IInv, NEW k \in Keys, SaveWrites(k)
    PROVE  IInv'
<1> DEFINE old == files[target]
           l == Line(k, config[k])
<1>1. k \in DOMAIN config /\ k \in todo /\ target \in Files /\ old \in Seq(Lines) /\ pc = "save"
  BY DEF IInv, Typed, SaveWrites
<1>2. l \in Lines /\ Sealed(l)
  BY <1>1, EntryLine DEF IInv, Typed, AllSealed
<1>3. UNCHANGED <<config, pc, target>> /\ todo' = todo \ {k}
  BY DEF SaveWrites
<1>4. files' = [files EXCEPT ![target] = Append(old, l)]
  BY DEF SaveWrites, Written, serialize
<1>5. files \in [Files -> Seq(Lines)]
  BY DEF IInv, Typed
<1> HIDE DEF l
<1>6. /\ files' \in [Files -> Seq(Lines)]
      /\ files'[target] = Append(old, l)
      /\ \A g \in Files : g # target => files'[g] = files[g]
  BY <1>1, <1>2, <1>4, <1>5
<1>7. /\ Len(Append(old, l)) = Len(old) + 1
      /\ \A i \in 1..Len(old) : Append(old, l)[i] = old[i]
      /\ Append(old, l)[Len(old) + 1] = l
      /\ DOMAIN Append(old, l) = 1..(Len(old) + 1) /\ DOMAIN old = 1..Len(old)
      /\ Len(old) \in Nat
  BY <1>1, <1>2
<1>8. Typed'
  BY <1>3, <1>6, <1>1 DEF IInv, Typed
<1>9. AllSealed'
  <2>1. \A i \in DOMAIN files'[target] : Sealed(files'[target][i])
    BY <1>1, <1>2, <1>6, <1>7 DEF IInv, AllSealed
  <2>2. \A g \in Files : \A i \in DOMAIN files'[g] : Sealed(files'[g][i])
    BY <1>6, <2>1 DEF IInv, AllSealed
  <2> QED
    BY <1>3, <2>2 DEF IInv, AllSealed
<1>10. SaveSoFar'
  <2>1. \A i \in DOMAIN files'[target] :
            \E x \in DOMAIN config \ todo' : files'[target][i] = Line(x, config[x])
    <3> SUFFICES ASSUME NEW i \in DOMAIN files'[target]
                 PROVE \E x \in DOMAIN config \ todo' :
                           files'[target][i] = Line(x, config[x])
      OBVIOUS
    <3>1. CASE i = Len(old) + 1
      BY <1>1, <1>3, <1>6, <1>7, <3>1 DEF l
    <3>2. CASE i \in 1..Len(old)
      BY <1>1, <1>3, <1>6, <1>7, <3>2 DEF IInv, SaveSoFar
    <3> QED
      BY <1>6, <1>7, <3>1, <3>2
  <2>2. \A x \in DOMAIN config \ todo' :
            \E i \in DOMAIN files'[target] : files'[target][i] = Line(x, config[x])
    <3> SUFFICES ASSUME NEW x \in DOMAIN config \ todo'
                 PROVE \E i \in DOMAIN files'[target] :
                           files'[target][i] = Line(x, config[x])
      OBVIOUS
    <3>1. CASE x = k
      <4>1. files'[target][Len(old) + 1] = Line(x, config[x])
        BY <1>6, <1>7, <3>1 DEF l
      <4> QED
        BY <1>6, <1>7, <4>1
    <3>2. CASE x # k
      <4>1. PICK i \in DOMAIN old : old[i] = Line(x, config[x])
        BY <1>1, <1>3, <3>2 DEF IInv, SaveSoFar
      <4> QED
        BY <1>6, <1>7, <4>1
    <3> QED
      BY <3>1, <3>2
  <2> QED
    BY <1>3, <2>1, <2>2 DEF SaveSoFar
<1> QED
  BY <1>8, <1>9, <1>10 DEF IInv

(* What a failed write leaves gives no secret away either.                 *)
LEMMA TornLines ==
    ASSUME IInv, NEW k \in DOMAIN config, NEW part \in Torn(k)
    PROVE  SealedLines(part)
<1>1. k \in Keys
  BY DEF IInv, Typed
<1>2. \A v \in Cut(config[k]) : v \in Values /\ Sealed(v)
  <2>1. Clear(Junk) \in Values /\ Sealed(Clear(Junk))
    BY TextsAssumption DEF Clear, Values, Sealed, AllTexts
  <2>2. Encrypted(Unreadable) \in Values /\ Sealed(Encrypted(Unreadable))
    BY DEF Encrypted, Values, Sealed, AllTexts
  <2>3. Encrypted(Junk) \in Values /\ Sealed(Encrypted(Junk))
    BY DEF Encrypted, Values, Sealed, AllTexts
  <2>4. \A b \in BadHex : Clear(b) \in Values /\ Sealed(Clear(b))
    BY TextsAssumption DEF Clear, Values, Sealed, AllTexts
  <2> QED
    BY <2>1, <2>2, <2>3, <2>4 DEF Cut
<1>3. CutLine \in Lines /\ Sealed(CutLine)
  <2>1. CutLine = [sep |-> FALSE, key |-> Name, enc |-> FALSE, text |-> Empty]
    BY DEF CutLine
  <2>2. Name \in Keys /\ Empty \in AllTexts /\ Empty \notin Secrets
    BY KeysAssumption, TextsAssumption DEF Keys, AllTexts
  <2>3. CutLine \in Lines /\ CutLine.text = Empty
    BY <2>1, <2>2 DEF Lines
  <2> QED
    BY <2>2, <2>3 DEF Sealed
<1>4. ASSUME NEW l \in Lines, Sealed(l), part = <<l>> PROVE SealedLines(part)
  BY <1>4 DEF SealedLines
<1>5. CASE part = <<>>
  BY <1>5 DEF SealedLines
<1>6. CASE part = <<CutLine>>
  BY <1>3, <1>4, <1>6
<1>7. ASSUME NEW v \in Cut(config[k]), part = <<Line(k, v)>> PROVE SealedLines(part)
  BY <1>1, <1>2, <1>4, <1>7, EntryLine
<1> QED
  BY <1>5, <1>6, <1>7 DEF Torn

LEMMA SaveFailsStep ==
    ASSUME IInv, NEW k \in Keys, SaveFails(k)
    PROVE  IInv'
<1>1. k \in DOMAIN config /\ target \in Files
  BY DEF IInv, Typed, SaveFails
<1>2. PICK part \in Torn(k) :
          files' = [files EXCEPT ![target] = files[target] \o part]
  BY DEF SaveFails
<1> DEFINE old == files[target]
<1>3. SealedLines(part) /\ SealedLines(old)
  BY <1>1, TornLines, FileLines
<1>4. /\ old \o part \in Seq(Lines) /\ old \in Seq(Lines) /\ part \in Seq(Lines)
      /\ Len(old \o part) = Len(old) + Len(part)
      /\ \A i \in 1..Len(old) : (old \o part)[i] = old[i]
      /\ \A i \in (Len(old) + 1)..(Len(old) + Len(part)) :
             (old \o part)[i] = part[i - Len(old)]
  BY <1>3 DEF SealedLines
<1>5. \A i \in DOMAIN (old \o part) : Sealed((old \o part)[i])
  <2> SUFFICES ASSUME NEW i \in 1..(Len(old) + Len(part))
               PROVE  Sealed((old \o part)[i])
    BY <1>4
  <2>1. CASE i \in 1..Len(old)
    BY <1>3, <1>4, <2>1 DEF SealedLines
  <2>2. CASE i \in (Len(old) + 1)..(Len(old) + Len(part))
    <3>1. i - Len(old) \in DOMAIN part
      BY <1>4, <2>2
    <3> QED
      BY <1>3, <1>4, <2>2, <3>1 DEF SealedLines
  <2> QED
    BY <1>4, <2>1, <2>2
<1>6. files \in [Files -> Seq(Lines)]
  BY DEF IInv, Typed
<1>7. /\ files' \in [Files -> Seq(Lines)]
      /\ files'[target] = old \o part
      /\ \A g \in Files : g # target => files'[g] = files[g]
  BY <1>1, <1>2, <1>4, <1>6
<1>8. DOMAIN config' = {} /\ todo' = {} /\ pc' = "off" /\ target' = target
  BY DEF SaveFails, Exit, NoEntries
<1>9. Typed'
  BY <1>1, <1>7, <1>8 DEF Typed
<1>10. AllSealed'
  <2>1. \A g \in Files : \A i \in DOMAIN files'[g] : Sealed(files'[g][i])
    BY <1>5, <1>7 DEF IInv, AllSealed
  <2> QED
    BY <1>8, <2>1 DEF AllSealed
<1> QED
  BY <1>8, <1>9, <1>10 DEF IInv, SaveSoFar

LEMMA NextIInv == IInv /\ [Next]_vars => IInv'
<1> SUFFICES ASSUME IInv, [Next]_vars PROVE IInv'
  OBVIOUS
<1>1. ASSUME Start PROVE IInv'
  BY <1>1, LoadStep, FilesAssumption DEF Start
<1>2. ASSUME NEW t \in Texts \cup {Empty}, GiveName(t) PROVE IInv'
  <2>1. Clear(t) \in Values /\ Sealed(Clear(t)) /\ Name \in Keys
    BY TextsAssumption, KeysAssumption DEF Clear, Values, AllTexts, Sealed, Keys
  <2> QED
    BY <1>2, <2>1, PutStep DEF GiveName
<1>3. ASSUME NEW k \in Keys, NEW t \in Texts, AddClear(k, t) PROVE IInv'
  <2>1. Clear(t) \in Values /\ Sealed(Clear(t))
    BY TextsAssumption DEF Clear, Values, AllTexts, Sealed
  <2> QED
    BY <1>3, <2>1, PutStep DEF AddClear, Edit, AtMenu
<1>4. ASSUME NEW k \in Keys, NEW t \in Secrets, AddEncrypted(k, t) PROVE IInv'
  <2>1. Encrypted(t) \in Values /\ Sealed(Encrypted(t))
    BY DEF Encrypted, Values, AllTexts, Sealed
  <2> QED
    BY <1>4, <2>1, PutStep DEF AddEncrypted, Edit, AtMenu
<1>5. ASSUME NEW k \in Keys, Remove(k) \/ SaveWrites(k) \/ SaveFails(k) PROVE IInv'
  BY <1>5, RemoveStep, SaveWritesStep, SaveFailsStep
<1>6. ASSUME NEW f \in Files, Load(f) \/ SaveCreates(f) PROVE IInv'
  BY <1>6, LoadStep, SaveCreatesStep DEF Load, AtMenu
<1>7. ASSUME SaveRefused \/ Quit PROVE IInv'
  BY <1>7, ExitStep DEF SaveRefused, Quit
<1>8. ASSUME SaveReturns PROVE IInv'
  <2>1. \A k \in DOMAIN config : config[k] \in Values /\ Sealed(config[k])
    BY DEF IInv, Typed, AllSealed
  <2>2. DOMAIN config \subseteq Keys
    BY DEF IInv, Typed
  <2> QED
    BY <1>8, <2>1, <2>2, MemoryStep DEF SaveReturns
<1>9. ASSUME UNCHANGED vars PROVE IInv'
  BY <1>9 DEF vars, IInv, Typed, AllSealed, SaveSoFar
<1> QED
  BY <1>1, <1>2, <1>3, <1>4, <1>5, <1>6, <1>7, <1>8, <1>9 DEF Next

THEOREM Invariance == Spec => []IInv
  BY InitIInv, NextIInv, PTL DEF Spec

(* The map, the files and the place in main() keep their types, whatever a  *)
(* file holds and wherever a save stops (Config::load, Config::save).       *)
THEOREM TypesKept == Spec => []TypeOK
<1>1. IInv => TypeOK
  BY DEF IInv, Typed, TypeOK
<1> QED
  BY Invariance, <1>1, PTL

-----------------------------------------------------------------------------
(* Whatever is saved, loaded and torn, and however often the tool is       *)
(* started again, a value entered with "Encrypt?" yes is never written to  *)
(* a file in clear.                                                        *)
THEOREM SecretsAreSealed == Spec => []SecretsStaySealed
<1>1. IInv => SecretsStaySealed
  BY DEF IInv, AllSealed, Sealed, SecretsStaySealed
<1> QED
  BY Invariance, <1>1, PTL

(* Whatever load() takes from a file survives every later save and load.   *)
THEOREM LoadedStaysStable == Spec => []LoadedIsStable
<1>1. IInv => LoadedIsStable
  BY FileLines, LoadedSurvives DEF LoadedIsStable
<1> QED
  BY Invariance, <1>1, PTL

(* In whatever order save() writes the entries, load() brings back each    *)
(* one that survives, and invents none but the heads of keys with a colon. *)
THEOREM SaveLoadRoundTrip == Spec => []RoundTrip
<1>1. ASSUME IInv PROVE RoundTrip
  <2> SUFFICES ASSUME pc = "save", todo = {}
               PROVE  LET back == load(files[target]) IN
                        /\ Loadable(files[target])
                        /\ \A k \in DOMAIN config : Survives(config, k) =>
                              k \in DOMAIN back /\ back[k] = config[k]
                        /\ DOMAIN back \subseteq DOMAIN config
                              \cup {KeyHead[x] : x \in DOMAIN config \cap ColonKeys}
    BY DEF RoundTrip
  <2> DEFINE lines == files[target]
  <2>1. lines \in Seq(Lines)
    BY <1>1 DEF IInv, Typed
  <2>2. \A i \in DOMAIN lines : \E k \in DOMAIN config : lines[i] = Line(k, config[k])
    BY <1>1 DEF IInv, SaveSoFar
  <2>3. \A k \in DOMAIN config : \E i \in DOMAIN lines : lines[i] = Line(k, config[k])
    BY <1>1 DEF IInv, SaveSoFar
  <2>4. \A k : Line(k, config[k]).key = k /\ Line(k, config[k]).sep
    BY DEF Line
  <2>5. DOMAIN config \subseteq Keys /\ \A k \in DOMAIN config : config[k] \in Values
    BY <1>1 DEF IInv, Typed
  <2> HIDE DEF lines
  <2>6. Loadable(lines)
    BY <2>2, <2>4 DEF Loadable
  <2>7. ASSUME NEW k \in DOMAIN config, Survives(config, k)
        PROVE  k \in DOMAIN load(lines) /\ load(lines)[k] = config[k]
    <3>1. k \notin ColonKeys
      BY <2>7, KeysAssumption DEF Survives
    <3>2. Split(Line(k, config[k])) = Line(k, config[k])
      BY <2>4, <3>1 DEF Split
    <3>3. Parses(Line(k, config[k])) /\ deserialize(Line(k, config[k])) = config[k]
      BY <2>5, <2>7 DEF Survives, Parses, deserialize, Line, Values
    <3>4. PICK i \in DOMAIN lines : lines[i] = Line(k, config[k])
      BY <2>3
    <3>5. i \in Entries(lines) /\ Split(lines[i]).key = k
      BY <2>4, <3>2, <3>3, <3>4 DEF Entries
    <3>6. k \in DOMAIN load(lines)
      BY <3>5 DEF load
    <3>7. PICK j \in Entries(lines) :
              Split(lines[j]).key = k /\ load(lines)[k] = deserialize(Split(lines[j]))
      BY <2>1, <3>6, LoadEntry
    <3>8. PICK x \in DOMAIN config : lines[j] = Line(x, config[x])
      BY <2>2, <3>7 DEF Entries
    <3>9. x \notin ColonKeys
      <4>1. SUFFICES ASSUME x \in ColonKeys PROVE FALSE
        OBVIOUS
      <4>2. Split(lines[j]).key = KeyHead[x]
        BY <2>4, <3>8, <4>1 DEF Split, Line, Clear
      <4> QED
        BY <2>7, <3>7, <4>1, <4>2 DEF Survives
    <3>10. x = k
      BY <2>4, <3>7, <3>8, <3>9 DEF Split
    <3> QED
      BY <3>2, <3>3, <3>6, <3>7, <3>8, <3>10
  <2>8. ASSUME NEW k \in DOMAIN load(lines)
        PROVE  k \in DOMAIN config \cup {KeyHead[x] : x \in DOMAIN config \cap ColonKeys}
    <3>1. PICK j \in Entries(lines) : Split(lines[j]).key = k
      BY <2>1, LoadEntry
    <3>2. PICK x \in DOMAIN config : lines[j] = Line(x, config[x])
      BY <2>2, <3>1 DEF Entries
    <3>3. CASE x \in ColonKeys
      <4>1. Split(lines[j]).key = KeyHead[x]
        BY <2>4, <3>2, <3>3 DEF Split, Line, Clear
      <4> QED
        BY <3>1, <3>3, <4>1
    <3>4. CASE x \notin ColonKeys
      BY <2>4, <3>1, <3>2, <3>4 DEF Split
    <3> QED
      BY <3>3, <3>4
  <2> QED
    BY <2>6, <2>7, <2>8 DEF lines
<1> QED
  BY Invariance, <1>1, PTL
=============================================================================
