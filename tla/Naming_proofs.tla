---------------------------- MODULE Naming_proofs ----------------------------
(***************************************************************************)
(* Proofs about Naming: names lead back to their documents.                *)
(***************************************************************************)
EXTENDS Naming, SequenceTheorems, TLAPS

(* A mark can be put before a text and taken off again.                    *)
LEMMA MarkedText ==
    ASSUME NEW m \in Marks, NEW id \in Text
    PROVE  /\ <<m>> \o id \in Text
           /\ <<m>> \o id # <<>>
           /\ Head(<<m>> \o id) = m
           /\ Tail(<<m>> \o id) = id
<1> DEFINE T == Word \cup Marks
           s == <<m>> \o id
<1>1. <<m>> \in Seq(T) /\ Len(<<m>>) = 1 /\ <<m>>[1] = m
  OBVIOUS
<1>2. id \in Seq(T) /\ Len(id) \in Nat
  BY DEF Text
<1>3. /\ s \in Seq(T) /\ Len(s) = 1 + Len(id)
      /\ \A k \in 1 .. 1 + Len(id) : s[k] = IF k <= 1 THEN <<m>>[k] ELSE id[k - 1]
  BY <1>1, <1>2, ConcatProperties
<1> HIDE DEF s
<1>4. s # <<>>
  BY <1>2, <1>3
<1>5. Head(s) = m
  BY <1>1, <1>2, <1>3, <1>4
<1>6. /\ Tail(s) \in Seq(T) /\ Len(Tail(s)) = Len(id)
      /\ \A k \in 1 .. Len(Tail(s)) : Tail(s)[k] = s[k + 1]
  BY <1>2, <1>3, <1>4, HeadTailProperties
<1>7. \A k \in 1 .. Len(id) : Tail(s)[k] = id[k]
  BY <1>1, <1>2, <1>3, <1>6
<1>8. Tail(s) = id
  BY <1>2, <1>6, <1>7, SeqEqual
<1> QED
  BY <1>3, <1>4, <1>5, <1>8 DEF s, Text

(* What the assumptions say of each constant.                              *)
LEMMA Constants ==
    /\ Ids \subseteq Text /\ Typed \subseteq Text /\ Index \subseteq Text
    /\ <<>> \notin Ids /\ <<>> \notin EscLong /\ <<>> \in Text
    /\ \A i \in Index : validIndexName(i) /\ i \notin Dots
<1>1. \A S \in {Long, EscLong, BadIndex, Index, Ids, Typed} : S \subseteq Text
  BY TextAssumption
<1>2. <<>> \in Text
  BY DEF Text
<1> QED
  BY <1>1, <1>2, TextAssumption DEF validIndexName

(* No virtual file and no dot looks like an encoded name.                  *)
LEMMA Unmarked == \A w \in Reserved \cup Dots : w # <<>> /\ Head(w) \notin Marks
  BY DEF Reserved, Dots, Marks

(* EncodeID: a hashed name is the mark before the id; any other decodes to *)
(* the id.                                                                 *)
LEMMA EncodeFacts ==
    ASSUME NEW id \in Text
    PROVE  /\ EncodeID(id).hashed \in BOOLEAN
           /\ EncodeID(id).name \in Text
           /\ EncodeID(id).name # <<>>
           /\ id \notin Dots => EncodeID(id).name \notin Dots
           /\ EncodeID(id).name \notin Reserved
           /\ EncodeID(id).hashed => /\ IsHashedName(EncodeID(id).name)
                                     /\ EncodeID(id).name = <<"@h=">> \o id
           /\ ~ EncodeID(id).hashed => /\ ~ IsHashedName(EncodeID(id).name)
                                       /\ ~ Undecodable(EncodeID(id).name)
                                       /\ DecodeID(EncodeID(id).name) = id
<1>1. CASE isRawSafe(id)
  <2>1. EncodeID(id) = [name |-> id, hashed |-> FALSE]
    BY <1>1 DEF EncodeID, EncodedName
  <2>2. id # <<>> /\ id \notin Reserved /\ Head(id) \notin Marks
    BY <1>1 DEF isRawSafe, HasEscapePrefix
  <2> QED
    BY <2>1, <2>2 DEF IsHashedName, Undecodable, IsEncoded, DecodeID, Marks
<1>2. CASE ~ isRawSafe(id) /\ id \notin EscLong
  <2> DEFINE n == <<"@e=">> \o id
  <2>1. EncodeID(id) = [name |-> n, hashed |-> FALSE]
    BY <1>2 DEF EncodeID, EncodedName
  <2>2. n \in Text /\ n # <<>> /\ Head(n) = "@e=" /\ Tail(n) = id
    BY MarkedText DEF Marks
  <2> HIDE DEF n
  <2>3. n \notin Reserved \cup Dots
    BY <2>2, Unmarked DEF Marks
  <2> QED
    BY <2>1, <2>2, <2>3 DEF IsHashedName, Undecodable, IsEncoded, DecodeID
<1>3. CASE ~ isRawSafe(id) /\ id \in EscLong
  <2> DEFINE n == <<"@h=">> \o id
  <2>1. EncodeID(id) = [name |-> n, hashed |-> TRUE]
    BY <1>3 DEF EncodeID, EncodedName
  <2>2. n \in Text /\ n # <<>> /\ Head(n) = "@h="
    BY MarkedText DEF Marks
  <2>3. n \notin Reserved \cup Dots
    BY <2>2, Unmarked DEF Marks
  <2> QED
    BY <2>1, <2>2, <2>3 DEF IsHashedName
<1> QED
  BY <1>1, <1>2, <1>3

(* What a name stands for, whoever resolves it.                            *)
Means(name, id) ==
    IF IsHashedName(name) THEN id \in Text /\ name = <<"@h=">> \o id ELSE id = DecodeID(name)

(* A name stands for at most one id, and the name of an id stands for it.  *)
LEMMA NameOfMeans ==
    ASSUME NEW id \in Text
    PROVE  Means(EncodeID(id).name, id)
  BY EncodeFacts DEF Means

LEMMA MeansOne ==
    ASSUME NEW name, NEW id1, NEW id2, Means(name, id1), Means(name, id2)
    PROVE  id1 = id2
<1>1. CASE IsHashedName(name)
  <2>1. id1 \in Text /\ id2 \in Text /\ <<"@h=">> \o id1 = <<"@h=">> \o id2
    BY <1>1 DEF Means
  <2>2. Tail(<<"@h=">> \o id1) = id1 /\ Tail(<<"@h=">> \o id2) = id2
    BY <2>1, MarkedText DEF Marks
  <2> QED
    BY <2>1, <2>2
<1>2. CASE ~ IsHashedName(name)
  BY <1>2 DEF Means
<1> QED
  BY <1>1, <1>2

(* What pathenc.go and paths.go promise of every id and not only of those   *)
(* that documents get: two ids never share a name, and a name in a path     *)
(* denotes the document whose id it was made from, by its id or, hashed, by *)
(* the name itself; it never denotes a virtual file.                        *)
THEOREM NamesDenoteTheirDocuments ==
    /\ \A id1, id2 \in Text : EncodeID(id1).name = EncodeID(id2).name => id1 = id2
    /\ \A id \in Text, i \in Index :
         LET name == EncodeID(id).name
             node == ParsePath(<<i, name>>)
         IN /\ node.kind = "document" /\ node.index = i
            /\ EncodeID(id).hashed => node.hashedName = name
            /\ ~ EncodeID(id).hashed => node.id = id /\ node.hashedName = <<>>
<1>1. \A id1, id2 \in Text : EncodeID(id1).name = EncodeID(id2).name => id1 = id2
  BY NameOfMeans, MeansOne
<1>2. ASSUME NEW id \in Text, NEW i \in Index,
             NEW name, name = EncodeID(id).name
      PROVE  LET node == ParsePath(<<i, name>>)
             IN /\ node.kind = "document" /\ node.index = i
                /\ EncodeID(id).hashed => node.hashedName = name
                /\ ~ EncodeID(id).hashed => node.id = id /\ node.hashedName = <<>>
  <2>1. validIndexName(i)
    BY TextAssumption DEF validIndexName
  <2>2. ParsePath(<<i, name>>) = ParseLeaf(i, name)
    BY <2>1 DEF ParsePath
  <2>3. name \notin IndexFiles
    BY <1>2, EncodeFacts DEF IndexFiles, MountFiles, Reserved
  <2>4. CASE EncodeID(id).hashed
    <3>1. IsHashedName(name)
      BY <1>2, <2>4, EncodeFacts
    <3> QED
      BY <2>2, <2>3, <2>4, <3>1 DEF ParseLeaf, Node
  <2>5. CASE ~ EncodeID(id).hashed
    <3>1. ~ IsHashedName(name) /\ ~ Undecodable(name) /\ DecodeID(name) = id
      BY <1>2, <2>5, EncodeFacts
    <3> QED
      BY <2>2, <2>3, <2>5, <3>1 DEF ParseLeaf, Node
  <2> QED
    BY <2>4, <2>5
<1> QED
  BY <1>1, <1>2

(* Decoding a name gives a text.                                           *)
LEMMA DecodeText ==
    ASSUME NEW name \in Text
    PROVE  DecodeID(name) \in Text
<1>1. CASE IsEncoded(name)
  <2>1. Tail(name) \in Text
    BY <1>1, HeadTailProperties DEF Text, IsEncoded
  <2> QED
    BY <1>1, <2>1 DEF DecodeID
<1>2. CASE ~ IsEncoded(name)
  BY <1>2 DEF DecodeID
<1> QED
  BY <1>1, <1>2

(* ParsePath of a file in a visible index.                                 *)
LEMMA AskedFacts ==
    ASSUME NEW i \in Index, NEW name \in Text
    PROVE  /\ Asked(i, name) = ParseLeaf(i, name)
           /\ Asked(i, name).kind = "document" =>
                /\ Asked(i, name).index = i
                /\ name \notin IndexFiles
                /\ IsHashedName(name) => Asked(i, name) = Node("document", i, <<>>, name)
                /\ ~ IsHashedName(name) => Asked(i, name) = Node("document", i, DecodeID(name), <<>>)
<1>1. ParsePath(<<i, name>>) = ParseLeaf(i, name)
  BY Constants DEF ParsePath
<1> QED
  BY <1>1 DEF Asked, ParseLeaf, Node, Invalid

-----------------------------------------------------------------------------
(* The inductive invariant.                                                *)

(* The reverse map only inverts EncodeID.                                  *)
MapInv == \A i \in Index : \A n \in DOMAIN hashed[i] : n = <<"@h=">> \o hashed[i][n]

(* What a listing hands over, or has shown, has been remembered.           *)
Remembered(i, id) == EncodeID(id).hashed => EncodeID(id).name \in DOMAIN hashed[i]

ListInv == \A h \in listing : Remembered(h.index, h.id)

(* The name printed is that of the document meant, or of the empty id.     *)
PrintedName(t) == EncodeID(IF t.by = "hashedOperand" THEN <<>> ELSE t.entry.id).name

ToldInv == \A t \in told :
    /\ t.entry.name = PrintedName(t)
    /\ t.by = "mount" => t.entry.id \in Ids /\ Remembered(t.entry.index, t.entry.id)

CallInv == \A g \in Proc : call[g] # Idle => Means(call[g].entry.name, call[g].entry.id)

ServedInv == \A e \in served : Means(e.name, e.id) /\ e.id \in Ids

IInv == TypeOK /\ MapInv /\ ListInv /\ ToldInv /\ CallInv /\ ServedInv

(* Remembering keeps what was remembered and adds the id at hand.          *)
LEMMA RememberFacts ==
    ASSUME TypeOK, MapInv, NEW i \in Index, NEW id \in Ids,
           hashed' = RememberHashed(hashed, i, id)
    PROVE  /\ hashed' \in [Index -> ReverseMap]
           /\ MapInv'
           /\ \A j \in Index, x \in Text : Remembered(j, x) => Remembered(j, x)'
           /\ Remembered(i, id)'
<1> USE Constants
<1>0. hashed \in [Index -> ReverseMap]
  BY DEF TypeOK
<1>1. CASE ~ EncodeID(id).hashed
  <2>1. hashed' = hashed
    BY <1>1 DEF RememberHashed
  <2> QED
    BY <1>0, <1>1, <2>1 DEF MapInv, Remembered
<1>2. CASE EncodeID(id).hashed
  <2> DEFINE n == EncodeID(id).name
             f == hashed[i]
             ext == Extended(f, n, id)
  <2>1. n = <<"@h=">> \o id /\ n \in HashedNames
    BY <1>2, EncodeFacts DEF HashedNames
  <2>2. PICK S \in SUBSET HashedNames : f \in [S -> Ids]
    BY <1>0 DEF ReverseMap
  <2>3. ext = [k \in S \cup {n} |-> IF k = n THEN id ELSE f[k]]
    BY <2>2 DEF Extended
  <2>4. hashed' = [hashed EXCEPT ![i] = ext]
    BY <1>2 DEF RememberHashed
  <2> HIDE DEF n, f, ext
  <2>5. ext \in [S \cup {n} -> Ids]
    BY <2>2, <2>3
  <2>6. S \cup {n} \in SUBSET HashedNames
    BY <2>1
  <2>7. ext \in ReverseMap
    BY <2>5, <2>6 DEF ReverseMap
  <2>8. hashed' \in [Index -> ReverseMap]
    BY <1>0, <2>4, <2>7
  <2>9. \A j \in Index : hashed'[j] = IF j = i THEN ext ELSE hashed[j]
    BY <1>0, <2>4
  <2>10. DOMAIN f = S
    BY <2>2
  <2>11. DOMAIN ext = S \cup {n}
    BY <2>5
  <2>12. \A k \in S \cup {n} : k = <<"@h=">> \o ext[k]
    <3>1. \A k \in S : k = <<"@h=">> \o f[k]
      BY <2>10 DEF MapInv, f
    <3> QED
      BY <2>1, <2>3, <3>1
  <2>13. MapInv'
    BY <2>9, <2>11, <2>12 DEF MapInv
  <2>14. \A j \in Index : DOMAIN hashed[j] \subseteq DOMAIN hashed'[j]
    BY <2>9, <2>10, <2>11 DEF f
  <2>15. n \in DOMAIN hashed'[i]
    BY <2>9, <2>11
  <2> QED
    BY <2>8, <2>13, <2>14, <2>15 DEF Remembered, n
<1> QED
  BY <1>1, <1>2

(* What resolving a name that is known yields is what the name stands for. *)
LEMMA ResolveMeans ==
    ASSUME TypeOK, MapInv, NEW i \in Index, NEW name \in Text,
           Asked(i, name).kind = "document", Known(Asked(i, name))
    PROVE  /\ ResolvedID(Asked(i, name)) \in Text
           /\ Means(name, ResolvedID(Asked(i, name)))
<1> USE Constants
<1>1. CASE IsHashedName(name)
  <2>1. Asked(i, name) = Node("document", i, <<>>, name) /\ name # <<>>
    BY <1>1, AskedFacts DEF IsHashedName
  <2>2. name \in DOMAIN hashed[i]
    BY <2>1 DEF Known, Node
  <2>3. ResolvedID(Asked(i, name)) = hashed[i][name]
    BY <2>1 DEF ResolvedID, Node
  <2>4. hashed[i][name] \in Ids
    BY <2>2 DEF TypeOK, ReverseMap
  <2>5. name = <<"@h=">> \o hashed[i][name]
    BY <2>2 DEF MapInv
  <2> QED
    BY <1>1, <2>3, <2>4, <2>5 DEF Means
<1>2. CASE ~ IsHashedName(name)
  <2>1. Asked(i, name) = Node("document", i, DecodeID(name), <<>>)
    BY <1>2, AskedFacts
  <2>2. ResolvedID(Asked(i, name)) = DecodeID(name)
    BY <2>1 DEF ResolvedID, Node
  <2> QED
    BY <1>2, <2>2, DecodeText DEF Means
<1> QED
  BY <1>1, <1>2

(* The operands for a file are its path, cut in two.                       *)
LEMMA JoinedPath ==
    ASSUME NEW i, NEW name, NEW o \in OperandsFor(i, name)
    PROVE  o.cwd \o o.path = <<Mount, i, name>>
<1> DEFINE S == {Mount, i, name}
           abs == <<Mount, i, name>>
           cwd == o.cwd
           path == o.path
           s == cwd \o path
<1>1. /\ cwd \in Seq(S) /\ path \in Seq(S) /\ abs \in Seq(S)
      /\ Len(cwd) \in Nat /\ Len(path) = 3 - Len(cwd) /\ Len(abs) = 3
      /\ \A k \in 1 .. 3 : abs[k] = IF k <= Len(cwd) THEN cwd[k] ELSE path[k - Len(cwd)]
  <2>1. CASE cwd = <<>> /\ path = <<Mount, i, name>>
    BY <2>1
  <2>2. CASE cwd = <<Mount>> /\ path = <<i, name>>
    BY <2>2
  <2>3. CASE cwd = <<Mount, i>> /\ path = <<name>>
    BY <2>3
  <2>4. \/ cwd = <<>> /\ path = <<Mount, i, name>>
        \/ cwd = <<Mount>> /\ path = <<i, name>>
        \/ cwd = <<Mount, i>> /\ path = <<name>>
    BY DEF OperandsFor, Operand
  <2> HIDE DEF S, abs, cwd, path
  <2> QED
    BY <2>1, <2>2, <2>3, <2>4, Zenon
<1> HIDE DEF S, abs, cwd, path
<1>2. /\ s \in Seq(S) /\ Len(s) = Len(cwd) + Len(path)
      /\ \A k \in 1 .. Len(cwd) + Len(path) :
            s[k] = IF k <= Len(cwd) THEN cwd[k] ELSE path[k - Len(cwd)]
  BY <1>1, ConcatProperties
<1> HIDE DEF s
<1>3. Len(s) = Len(abs) /\ \A k \in 1 .. Len(s) : s[k] = abs[k]
  BY <1>1, <1>2
<1>4. s = abs
  BY <1>1, <1>2, <1>3, SeqEqual
<1> QED
  BY <1>4, Zenon DEF s, abs, cwd, path

(* An operand for a file without dots is what a request of the kernel for  *)
(* the same file is.                                                       *)
LEMMA ResolveIsAsked ==
    ASSUME NEW i \in Index, NEW name \in Text, name \notin Dots,
           NEW o \in OperandsFor(i, name)
    PROVE  Resolve(o.cwd, o.path) = Asked(i, name)
<1> DEFINE abs == <<Mount, i, name>>
<1>1. \A k \in DOMAIN abs : abs[k] \notin Dots
  <2>1. Mount \notin Dots /\ i \notin Dots
    BY Constants DEF Mount, Dots
  <2>2. DOMAIN abs = 1 .. 3 /\ abs[1] = Mount /\ abs[2] = i /\ abs[3] = name
    OBVIOUS
  <2> HIDE DEF abs
  <2> QED
    BY <2>1, <2>2
<1>2. Clean(abs) = abs
  BY <1>1 DEF Clean
<1>3. abs # <<>> /\ Head(abs) = Mount /\ Tail(abs) = <<i, name>>
  OBVIOUS
<1>4. o.cwd \o o.path = abs
  BY JoinedPath
<1> HIDE DEF abs
<1> QED
  BY <1>2, <1>3, <1>4 DEF Resolve, Asked

LEMMA NamesAreTexts == Names \subseteq Text
  BY Constants, EncodeFacts DEF Names

(* What the steps that print something do to told.                         *)
LEMMA TellFacts ==
    ASSUME TypeOK, ToldInv, NEW i \in Index, NEW name \in Text, NEW id \in Text,
           NEW by \in {"mount", "hashedOperand", "other"},
           name = EncodeID(IF by = "hashedOperand" THEN <<>> ELSE id).name,
           Tell(Named(i, name, id), by),
           by = "mount" => id \in Ids /\ Remembered(i, id),
           UNCHANGED hashed
    PROVE  /\ told' \in SUBSET Told /\ \A s, t \in told' : s = t
           /\ ToldInv'
<1>1. CASE told' = told
  BY <1>1 DEF TypeOK, ToldInv, PrintedName, Remembered
<1>2. CASE told' # told
  <2> DEFINE e == Named(i, name, id)
             t == [entry |-> e, by |-> by]
  <2>1. told' = {t}
    BY <1>2 DEF Tell
  <2>2. e \in Entry /\ e.name = name /\ e.index = i /\ e.id = id
    BY DEF Entry, Named
  <2> HIDE DEF e
  <2>3. t \in Told /\ t.entry = e /\ t.by = by
    BY <2>2 DEF Told
  <2> HIDE DEF t
  <2> QED
    BY <2>1, <2>2, <2>3 DEF ToldInv, PrintedName, Remembered
<1> QED
  BY <1>1, <1>2

(* Remembering disturbs nothing else.                                      *)
LEMMA RememberKeeps ==
    ASSUME IInv, NEW i \in Index, NEW id \in Ids,
           hashed' = RememberHashed(hashed, i, id), UNCHANGED told
    PROVE  hashed' \in [Index -> ReverseMap] /\ MapInv' /\ ToldInv'
<1>1. /\ hashed' \in [Index -> ReverseMap] /\ MapInv'
      /\ \A j \in Index, x \in Text : Remembered(j, x) => Remembered(j, x)'
  BY RememberFacts DEF IInv
<1>2. ASSUME NEW t \in told
      PROVE  t.entry.index \in Index /\ t.entry.id \in Text
  BY <1>2 DEF IInv, TypeOK, Told, Entry
<1> QED
  BY <1>1, <1>2 DEF IInv, ToldInv, PrintedName, Remembered

LEMMA InitInv == Init => IInv
<1> SUFFICES ASSUME Init PROVE IInv
  OBVIOUS
<1>1. [name \in {} |-> <<>>] \in ReverseMap
  <2>1. {} \in SUBSET HashedNames /\ [name \in {} |-> <<>>] \in [{} -> Ids]
    OBVIOUS
  <2> QED
    BY <2>1 DEF ReverseMap
<1>2. TypeOK
  BY <1>1 DEF Init, TypeOK, NothingHashed, CallState
<1>3. MapInv /\ ListInv /\ ToldInv /\ CallInv /\ ServedInv
  BY DEF Init, NothingHashed, MapInv, ListInv, ToldInv, CallInv, ServedInv
<1> QED
  BY <1>2, <1>3 DEF IInv

LEMMA ListProduceInv ==
    ASSUME IInv, NEW i \in Index, NEW id \in Ids, ListProduce(i, id)
    PROVE  IInv'
<1>1. hashed' = RememberHashed(hashed, i, id) /\ listing' = {[index |-> i, id |-> id]}
  BY DEF ListProduce, ListRemembers
<1>2. UNCHANGED <<call, told, served>>
  BY DEF ListProduce
<1>3. hashed' \in [Index -> ReverseMap] /\ MapInv' /\ ToldInv'
  BY <1>1, <1>2, RememberKeeps
<1>4. Remembered(i, id)'
  BY <1>1, RememberFacts DEF IInv
<1>5. TypeOK'
  BY <1>1, <1>2, <1>3 DEF IInv, TypeOK, Hit
<1>6. ListInv'
  BY <1>1, <1>4 DEF ListInv, Remembered
<1>7. CallInv' /\ ServedInv'
  BY <1>2 DEF IInv, CallInv, ServedInv
<1> QED
  BY <1>3, <1>5, <1>6, <1>7 DEF IInv

LEMMA ListEmitInv ==
    ASSUME IInv, NEW i \in Index, NEW id \in Ids, ListEmit(i, id)
    PROVE  IInv'
<1>1. listing' = {} /\ UNCHANGED <<hashed, call, served>>
      /\ Tell(Named(i, EncodeID(id).name, id), "mount")
  BY DEF ListEmit
<1>2. Remembered(i, id)
  BY DEF ListEmit, IInv, ListInv
<1>3. told' \in SUBSET Told /\ (\A s, t \in told' : s = t) /\ ToldInv'
  <2>1. id \in Text /\ EncodeID(id).name \in Text
    BY Constants, EncodeFacts
  <2> QED
    BY <1>1, <1>2, <2>1, TellFacts DEF IInv
<1>4. TypeOK'
  BY <1>1, <1>3 DEF IInv, TypeOK
<1> QED
  BY <1>1, <1>3, <1>4 DEF IInv, MapInv, ListInv, CallInv, ServedInv

LEMMA StartInv ==
    ASSUME IInv, NEW g \in Proc, NEW op \in {"read", "write", "unlink"},
           NEW pc \in {"get", "put", "delete"},
           NEW i \in Index, NEW name \in Names, Start(g, op, pc, i, name)
    PROVE  IInv'
<1> DEFINE n == Asked(i, name)
           e == Named(i, name, ResolvedID(n))
           c == [op |-> op, pc |-> pc, entry |-> e]
<1>1. /\ n.kind = "document" /\ Known(n)
      /\ call' = [call EXCEPT ![g] = c] /\ UNCHANGED <<hashed, listing, told, served>>
  BY DEF Start
<1>2. name \in Text
  BY NamesAreTexts
<1>3. ResolvedID(n) \in Text /\ Means(name, ResolvedID(n))
  BY <1>1, <1>2, ResolveMeans DEF IInv
<1>4. e \in Entry /\ Means(e.name, e.id)
  BY <1>2, <1>3 DEF Entry, Named
<1> HIDE DEF n, e
<1>5. c \in CallState /\ c.entry = e
  BY <1>4 DEF CallState
<1> HIDE DEF c
<1>6. TypeOK'
  BY <1>1, <1>5 DEF IInv, TypeOK
<1>7. CallInv'
  BY <1>1, <1>4, <1>5 DEF IInv, TypeOK, CallInv
<1> QED
  BY <1>1, <1>6, <1>7 DEF IInv, MapInv, ListInv, ToldInv, PrintedName, ServedInv, Remembered

(* The entry of a call under way.                                          *)
LEMMA CallFacts ==
    ASSUME IInv, NEW g \in Proc, call[g] # Idle
    PROVE  call[g].entry \in Entry /\ Means(call[g].entry.name, call[g].entry.id)
  BY DEF IInv, TypeOK, CallState, CallInv

(* What a call leaves behind when it ends or goes on.                      *)
LEMMA CallEnds ==
    ASSUME IInv, NEW g \in Proc, call[g] # Idle,
           \/ call' = [call EXCEPT ![g] = Idle]
           \/ call' = [call EXCEPT ![g] = [call[g] EXCEPT !.pc = "put"]],
           \/ UNCHANGED hashed
           \/ /\ call[g].entry.id \in Ids
              /\ hashed' = RememberHashed(hashed, call[g].entry.index, call[g].entry.id),
           UNCHANGED served \/ (call[g].entry.id \in Ids /\ Serve(call[g].entry)),
           UNCHANGED <<listing, told>>
    PROVE  IInv'
<1> DEFINE e == call[g].entry
<1>1. e \in Entry /\ e.index \in Index /\ Means(e.name, e.id)
  BY CallFacts DEF Entry
<1>2. hashed' \in [Index -> ReverseMap] /\ MapInv' /\ ToldInv' /\ ListInv'
  <2>1. CASE UNCHANGED hashed
    BY <2>1 DEF IInv, TypeOK, MapInv, ToldInv, PrintedName, ListInv, Remembered
  <2>2. CASE ~ UNCHANGED hashed
    <3>1. e.id \in Ids /\ hashed' = RememberHashed(hashed, e.index, e.id)
      BY <2>2
    <3>2. \A j \in Index, x \in Text : Remembered(j, x) => Remembered(j, x)'
      BY <1>1, <3>1, RememberFacts DEF IInv
    <3>3. \A h \in listing : h.index \in Index /\ h.id \in Text
      BY Constants DEF IInv, TypeOK, Hit
    <3>4. ListInv'
      BY <3>2, <3>3 DEF IInv, ListInv, Remembered
    <3> QED
      BY <1>1, <3>1, <3>4, RememberKeeps
  <2> QED
    BY <2>1, <2>2
<1>3. call' \in [Proc -> CallState] /\ CallInv'
  <2>1. call[g] \in [op : {"read", "write", "unlink"}, pc : {"get", "put", "delete"}, entry : Entry]
    BY DEF IInv, TypeOK, CallState
  <2>2. CASE call' = [call EXCEPT ![g] = Idle]
    BY <2>2 DEF IInv, TypeOK, CallState, CallInv
  <2>3. CASE call' = [call EXCEPT ![g] = [call[g] EXCEPT !.pc = "put"]]
    <3> DEFINE c == [call[g] EXCEPT !.pc = "put"]
    <3>1. c \in CallState /\ c.entry = e
      BY <2>1 DEF CallState
    <3> HIDE DEF c, e
    <3> QED
      BY <1>1, <2>3, <3>1 DEF IInv, TypeOK, CallInv, c
  <2> QED
    BY <2>2, <2>3
<1>4. served' \in SUBSET Entry /\ (\A s, t \in served' : s = t) /\ ServedInv'
  <2>1. CASE UNCHANGED served
    BY <2>1 DEF IInv, TypeOK, ServedInv
  <2>2. CASE served' = {e} /\ e.id \in Ids
    BY <1>1, <2>2 DEF ServedInv
  <2> QED
    BY <2>1, <2>2 DEF Serve
<1>5. TypeOK'
  BY <1>2, <1>3, <1>4 DEF IInv, TypeOK
<1> QED
  BY <1>2, <1>3, <1>4, <1>5 DEF IInv

LEMMA RemountInv ==
    ASSUME IInv, Remount
    PROVE  IInv'
<1>1. /\ hashed' = NothingHashed /\ call' = [g \in Proc |-> Idle] /\ listing' = {}
      /\ told' = {[t EXCEPT !.by = IF @ = "mount" THEN "other" ELSE @] : t \in told}
      /\ UNCHANGED served
  BY DEF Remount
<1>2. NothingHashed \in [Index -> ReverseMap]
  <2>1. {} \in SUBSET HashedNames /\ [name \in {} |-> <<>>] \in [{} -> Ids]
    OBVIOUS
  <2> QED
    BY <2>1 DEF NothingHashed, ReverseMap
<1> DEFINE Late(t) == [t EXCEPT !.by = IF @ = "mount" THEN "other" ELSE @]
<1>3. ASSUME NEW t \in told
      PROVE  /\ Late(t) \in Told /\ Late(t).entry = t.entry /\ Late(t).by # "mount"
             /\ Late(t).by = "hashedOperand" <=> t.by = "hashedOperand"
  <2>1. t \in Told
    BY DEF IInv, TypeOK
  <2> QED
    BY <2>1 DEF Told
<1>a. told' = {Late(t) : t \in told}
  BY <1>1
<1> HIDE DEF Late
<1>4. told' \in SUBSET Told /\ \A s, t \in told' : s = t
  BY <1>a, <1>3 DEF IInv, TypeOK
<1>5. ToldInv'
  <2>1. ASSUME NEW u \in told'
        PROVE  u.entry.name = PrintedName(u) /\ u.by # "mount"
    <3>1. PICK t \in told : u = Late(t)
      BY <1>a
    <3>2. /\ u.entry = t.entry /\ u.by # "mount"
          /\ u.by = "hashedOperand" <=> t.by = "hashedOperand"
      BY <1>3, <3>1
    <3> QED
      BY <3>2 DEF IInv, ToldInv, PrintedName
  <2> QED
    BY <2>1 DEF ToldInv, PrintedName
<1>6. TypeOK'
  BY <1>1, <1>2, <1>4 DEF IInv, TypeOK, CallState
<1>7. MapInv' /\ ListInv' /\ CallInv' /\ ServedInv'
  BY <1>1 DEF IInv, NothingHashed, MapInv, ListInv, CallInv, ServedInv
<1> QED
  BY <1>5, <1>6, <1>7 DEF IInv

(* Steps that only print.                                                  *)
LEMMA PrintInv ==
    ASSUME IInv, NEW i \in Index, NEW id \in Text,
           NEW by \in {"hashedOperand", "other"}, NEW name \in Text,
           name = EncodeID(IF by = "hashedOperand" THEN <<>> ELSE id).name,
           Tell(Named(i, name, id), by),
           UNCHANGED <<hashed, call, listing, served>>
    PROVE  IInv'
<1>1. told' \in SUBSET Told /\ (\A s, t \in told' : s = t) /\ ToldInv'
  BY TellFacts DEF IInv
<1>2. TypeOK'
  BY <1>1 DEF IInv, TypeOK
<1> QED
  BY <1>1, <1>2 DEF IInv, MapInv, ListInv, CallInv, ServedInv, Remembered

LEMMA PrintOperandInv ==
    ASSUME IInv, NEW i \in Index, NEW name \in Names, PrintOperand(i, name)
    PROVE  IInv'
<1> DEFINE n == Resolve(<<Mount, i>>, <<name>>)
           by == IF n.hashedName = <<>> THEN "other" ELSE "hashedOperand"
<1>1. /\ name \notin Dots /\ n.kind = "document"
      /\ Tell(Named(n.index, EncodeID(n.id).name, Meant(n)), by)
      /\ UNCHANGED <<hashed, call, listing, served>>
  BY DEF PrintOperand
<1>2. name \in Text
  BY NamesAreTexts
<1>3. /\ Operand(<<Mount, i>>, <<name>>) \in OperandsFor(i, name)
      /\ n = Resolve(Operand(<<Mount, i>>, <<name>>).cwd, Operand(<<Mount, i>>, <<name>>).path)
  BY DEF OperandsFor, Operand
<1>4. n = Asked(i, name)
  BY <1>1, <1>2, <1>3, ResolveIsAsked
<1>5. /\ n.index = i /\ n.id \in Text /\ Meant(n) \in Text
      /\ n.id = IF n.hashedName = <<>> THEN Meant(n) ELSE <<>>
  <2>1. CASE IsHashedName(name)
    <3>1. n = Node("document", i, <<>>, name) /\ name # <<>>
      BY <1>1, <1>2, <1>4, <2>1, AskedFacts DEF IsHashedName
    <3>2. Tail(name) \in Text
      BY <1>2, <3>1, HeadTailProperties DEF Text
    <3> QED
      BY <3>1, <3>2, Constants DEF Node, Meant
  <2>2. CASE ~ IsHashedName(name)
    <3>1. n = Node("document", i, DecodeID(name), <<>>)
      BY <1>1, <1>2, <1>4, <2>2, AskedFacts
    <3>2. DecodeID(name) \in Text
      BY <1>2, DecodeText
    <3>3. n.index = i /\ n.id = DecodeID(name) /\ n.hashedName = <<>>
      BY <3>1 DEF Node
    <3> HIDE DEF n
    <3> QED
      BY <3>2, <3>3 DEF Meant
  <2> QED
    BY <2>1, <2>2
<1> HIDE DEF n
<1>6. /\ by \in {"hashedOperand", "other"} /\ EncodeID(n.id).name \in Text
      /\ EncodeID(n.id).name = EncodeID(IF by = "hashedOperand" THEN <<>> ELSE Meant(n)).name
  BY <1>5, EncodeFacts
<1> HIDE DEF by
<1> QED
  BY <1>1, <1>5, <1>6, PrintInv

-----------------------------------------------------------------------------
LEMMA StepInv == IInv /\ [Next]_vars => IInv'
<1> SUFFICES ASSUME IInv, [Next]_vars PROVE IInv'
  OBVIOUS
<1>1. CASE UNCHANGED vars
  BY <1>1 DEF vars, IInv, TypeOK, MapInv, ListInv, ToldInv, PrintedName, CallInv, ServedInv,
     Remembered
<1>2. ASSUME NEW i \in Index, NEW id \in Ids, ListProduce(i, id) PROVE IInv'
  BY <1>2, ListProduceInv
<1>3. ASSUME NEW i \in Index, NEW id \in Ids, ListEmit(i, id) PROVE IInv'
  BY <1>3, ListEmitInv
<1>4. ASSUME NEW g \in Proc, NEW i \in Index, NEW name \in Names,
             Read(g, i, name) \/ OpenWrite(g, i, name) \/ Unlink(g, i, name)
      PROVE  IInv'
  BY <1>4, StartInv DEF Read, OpenWrite, Unlink
<1>5. ASSUME NEW g \in Proc, GetDone(g) PROVE IInv'
  <2>1. CASE call[g].op = "write"
    BY <1>5, <2>1, CallEnds DEF GetDone
  <2>2. CASE call[g].op # "write"
    BY <1>5, <2>2, CallEnds DEF GetDone
  <2> QED
    BY <2>1, <2>2
<1>6. ASSUME NEW g \in Proc, PutDone(g) PROVE IInv'
  BY <1>6, CallEnds DEF PutDone
<1>7. ASSUME NEW g \in Proc, DeleteDone(g) PROVE IInv'
  BY <1>7, CallEnds DEF DeleteDone
<1>8. ASSUME NEW g \in Proc, GiveUp(g) PROVE IInv'
  BY <1>8, CallEnds DEF GiveUp
<1>9. CASE Remount
  BY <1>9, RemountInv
<1>10. ASSUME NEW i \in Index, NEW id \in Ids, PrintPath(i, id) PROVE IInv'
  <2>1. id \in Text /\ EncodeID(id).name \in Text
    BY Constants, EncodeFacts
  <2>2. /\ Tell(Named(i, EncodeID(id).name, id), "other")
        /\ UNCHANGED <<hashed, call, listing, served>>
    BY <1>10 DEF PrintPath
  <2> QED
    BY <2>1, <2>2, PrintInv
<1>11. ASSUME NEW i \in Index, NEW name \in Names, PrintOperand(i, name) PROVE IInv'
  BY <1>11, PrintOperandInv
<1> QED
  BY <1>1, <1>2, <1>3, <1>4, <1>5, <1>6, <1>7, <1>8, <1>9, <1>10, <1>11 DEF Next

(* The inductive invariant holds in every reachable state.                 *)
THEOREM Invariance == Spec => []IInv
<1>1. Init => IInv
  BY InitInv
<1>2. IInv /\ [Next]_vars => IInv'
  BY StepInv
<1> QED
  BY <1>1, <1>2, PTL DEF Spec

(* The reverse map, calls, and listings of a mount have their types.       *)
THEOREM TypeCorrect == Spec => []TypeOK
<1>1. IInv => TypeOK
  BY DEF IInv
<1> QED
  BY <1>1, Invariance, PTL

(* An entry that was printed.                                              *)
LEMMA ToldFacts ==
    ASSUME IInv, NEW t \in told
    PROVE  /\ t.entry.index \in Index /\ t.entry.id \in Text
           /\ t.entry.name = PrintedName(t)
           /\ t.by = "mount" => t.entry.id \in Ids /\ Remembered(t.entry.index, t.entry.id)
<1>1. t \in Told
  BY DEF IInv, TypeOK
<1>2. t.entry \in Entry
  BY <1>1 DEF Told
<1>3. t.entry.index \in Index /\ t.entry.id \in Text
  BY <1>2 DEF Entry
<1> QED
  BY <1>3 DEF IInv, ToldInv

(* For all sets of ids and names: the mount never reaches another document *)
(* through a name than the one for which the name was printed.             *)
THEOREM NamesAreStable == Spec => []NamesKeepMeaning
<1>1. IInv => NamesKeepMeaning
  <2> SUFFICES ASSUME IInv, NEW t \in told, NEW s \in served, t.entry.name = s.name
               PROVE  t.entry.id = s.id
    BY DEF NamesKeepMeaning
  <2>1. t.entry.id \in Text /\ t.entry.name = PrintedName(t)
    BY ToldFacts
  <2>2. Means(s.name, s.id) /\ s.id \in Ids
    BY DEF IInv, ServedInv
  <2>3. CASE t.by = "hashedOperand"
    <3>1. Means(s.name, <<>>)
      BY <2>1, <2>3, NameOfMeans, Constants DEF PrintedName
    <3> QED
      BY <2>2, <3>1, MeansOne, Constants
  <2>4. CASE t.by # "hashedOperand"
    <3>1. Means(s.name, t.entry.id)
      BY <2>1, <2>4, NameOfMeans DEF PrintedName
    <3> QED
      BY <2>2, <3>1, MeansOne
  <2> QED
    BY <2>3, <2>4
<1> QED
  BY <1>1, Invariance, PTL

(* For all sets of ids and names: what a directory shows can be opened,    *)
(* and is the document it was shown for.                                   *)
THEOREM ShownIsReachable == Spec => []ShownResolves
<1>1. IInv => ShownResolves
  <2> SUFFICES ASSUME IInv, NEW t \in told, t.by = "mount", t.entry.id \notin Dots
               PROVE  LET n == Asked(t.entry.index, t.entry.name)
                      IN /\ Askable(t.entry.name) /\ n.kind = "document" /\ Known(n)
                         /\ ResolvedID(n) = t.entry.id
    BY DEF ShownResolves
  <2> DEFINE i == t.entry.index
             id == t.entry.id
             name == t.entry.name
             n == Asked(i, name)
  <2>1. i \in Index /\ id \in Ids /\ name = EncodeID(id).name /\ Remembered(i, id)
    BY ToldFacts DEF PrintedName
  <2>2. id \in Text
    BY <2>1, Constants
  <2>3. name \in Text /\ name \notin Dots /\ name \notin IndexFiles
    BY <2>1, <2>2, EncodeFacts DEF IndexFiles, MountFiles, Reserved
  <2>4. name \notin Long
    <3>1. CASE isRawSafe(id)
      BY <2>1, <3>1 DEF EncodeID, EncodedName, isRawSafe
    <3>2. CASE ~ isRawSafe(id) /\ id \notin EscLong
      BY <2>1, <3>2, TextAssumption DEF EncodeID, EncodedName
    <3>3. CASE ~ isRawSafe(id) /\ id \in EscLong
      BY <2>1, <3>3, TextAssumption DEF EncodeID, EncodedName
    <3> QED
      BY <3>1, <3>2, <3>3
  <2> HIDE DEF i, id, name
  <2>5. n = ParseLeaf(i, name)
    BY <2>1, <2>3, AskedFacts
  <2>6. n.kind = "document" /\ Known(n)
    <3>1. CASE EncodeID(id).hashed
      <4>1. n = Node("document", i, <<>>, name)
        BY <2>1, <2>2, <2>3, <2>5, <3>1, EncodeFacts DEF ParseLeaf
      <4> QED
        BY <2>1, <3>1, <4>1 DEF Remembered, Known, Node
    <3>2. CASE ~ EncodeID(id).hashed
      <4>1. n = Node("document", i, DecodeID(name), <<>>)
        BY <2>1, <2>2, <2>3, <2>5, <3>2, EncodeFacts DEF ParseLeaf
      <4> QED
        BY <4>1 DEF Known, Node
    <3> QED
      BY <3>1, <3>2
  <2>7. Means(name, ResolvedID(n)) /\ Means(name, id)
    BY <2>1, <2>2, <2>3, <2>6, ResolveMeans, NameOfMeans DEF IInv
  <2>8. ResolvedID(n) = id
    BY <2>7, MeansOne
  <2> QED
    BY <2>3, <2>4, <2>6, <2>8 DEF Askable, i, id, name
<1> QED
  BY <1>1, Invariance, PTL

(* For all sets of ids and names: a printed path is an operand for the     *)
(* same document, from the root, the mount and the index, unless ls or     *)
(* find printed it for a hashed name.                                      *)
THEOREM PrintedIsOperand == Spec => []PrintedPathsComeBack
<1>1. IInv => PrintedPathsComeBack
  <2> SUFFICES ASSUME IInv, NEW t \in told, t.by # "hashedOperand", t.entry.id \notin Dots,
                      NEW o \in OperandsFor(t.entry.index, t.entry.name)
               PROVE  LET n == Resolve(o.cwd, o.path) IN
                      /\ n.kind = "document" /\ n.index = t.entry.index
                      /\ \/ n.hashedName = <<>> /\ n.id = t.entry.id
                         \/ /\ n.hashedName = EncodeID(t.entry.id).name
                            /\ EncodeID(t.entry.id).hashed
    BY DEF PrintedPathsComeBack
  <2> DEFINE i == t.entry.index
             id == t.entry.id
             name == t.entry.name
             n == Asked(i, name)
  <2>1. i \in Index /\ id \in Text /\ name = EncodeID(id).name
    BY ToldFacts DEF PrintedName
  <2>2. name \in Text /\ name \notin Dots /\ name \notin IndexFiles
    BY <2>1, EncodeFacts DEF IndexFiles, MountFiles, Reserved
  <2>3. o \in OperandsFor(i, name)
    OBVIOUS
  <2> HIDE DEF i, id, name
  <2>4. Resolve(o.cwd, o.path) = n
    BY <2>1, <2>2, <2>3, ResolveIsAsked
  <2>5. n = ParseLeaf(i, name)
    BY <2>1, <2>2, AskedFacts
  <2>6. CASE EncodeID(id).hashed
    <3>1. n = Node("document", i, <<>>, name)
      BY <2>1, <2>2, <2>5, <2>6, EncodeFacts DEF ParseLeaf
    <3>2. n.kind = "document" /\ n.index = i /\ n.hashedName = EncodeID(id).name
      BY <2>1, <3>1 DEF Node
    <3> HIDE DEF n
    <3> QED
      BY <2>4, <2>6, <3>2 DEF i, id
  <2>7. CASE ~ EncodeID(id).hashed
    <3>1. n = Node("document", i, id, <<>>)
      BY <2>1, <2>2, <2>5, <2>7, EncodeFacts DEF ParseLeaf
    <3>2. n.kind = "document" /\ n.index = i /\ n.hashedName = <<>> /\ n.id = id
      BY <3>1 DEF Node
    <3> HIDE DEF n
    <3> QED
      BY <2>4, <3>2 DEF i, id
  <2> QED
    BY <2>6, <2>7
<1> QED
  BY <1>1, Invariance, PTL
=============================================================================
