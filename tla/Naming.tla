------------------------------- MODULE Naming -------------------------------
(***************************************************************************)
(* Document ids and file names: EncodeID, DecodeID, ParsePath              *)
(* (internal/contract), the reverse map of hashed names that a mount keeps *)
(* in memory (internal/escore/esclient.go), the operations that resolve a  *)
(* name through it (internal/vfs), and the commands of other processes     *)
(* that print paths and take them as operands (internal/cmdshim,           *)
(* internal/cli/path.go, internal/routing).                                *)
(*                                                                         *)
(* A text is a sequence of tokens: one word, possibly after marks.         *)
(*   "@e="  the percent encoding of the rest, as percentEscape spells it   *)
(*   "@e~"  the same with other escapes, such as a byte escaped needlessly *)
(*   "@e!"  an encoding percentUnescape refuses                            *)
(*   "@h="  the hash of the rest; collisions of the hash are left out      *)
(* An id may look like a file name: <<"@e=", "a">> is a possible id.       *)
(*                                                                         *)
(* Other clients create and delete documents at any time, so which ids an  *)
(* index holds is not state: a request may find any id, or not find it.    *)
(* No document has the empty id.                                           *)
(***************************************************************************)
EXTENDS Naturals, Sequences, SequencesExt

CONSTANTS
    Word,       \* texts without a mark
    Unsafe,     \* words with a slash, a control byte or broken UTF-8
    Prefixed,   \* words beginning with "@"
    Long,       \* texts longer than MaxNameLen
    EscLong,    \* texts whose percent encoding does not fit in a name
    BadIndex,   \* texts refused by validIndexName for their bytes
    Index,      \* the visible indices
    Ids,        \* ids that documents may get
    Typed,      \* names that users type
    Proc        \* goroutines serving FUSE requests of the mount

Marks == {"@e=", "@e~", "@e!", "@h="}
Reserved == {<<"profile.md">>, <<".mapping.json">>, <<".fields.json">>,
             <<".sync.json">>, <<".esfs-info">>}
Dots == {<<".">>, <<"..">>}
Text == Seq(Word \cup Marks)

ASSUME WordAssumption == Word \cap Marks = {} /\ Unsafe \subseteq Word /\ Prefixed \subseteq Word
ASSUME TextAssumption ==
    /\ {Long, EscLong, BadIndex, Index, Ids, Typed} \subseteq SUBSET Text
    /\ Long \subseteq EscLong /\ <<>> \notin Ids \cup EscLong
    /\ \A id \in Ids : /\ id \notin EscLong => <<"@e=">> \o id \notin Long
                       /\ <<"@h=">> \o id \notin Long
    /\ \A i \in Index : i \notin Long \cup BadIndex \cup {<<>>} \cup Dots

VARIABLES
    hashed,     \* ESClient.hashed of the mount: per index, hashed names to ids
    call,       \* what each goroutine is doing
    listing,    \* the hit a directory stream of the mount hands over, if any
    told,       \* one entry that a listing or a command printed, if any
    served      \* the name and document the mount served last, if any

vars == <<hashed, call, listing, told, served>>

-----------------------------------------------------------------------------
(* contract/pathenc.go                                                     *)

(* Mutant: only names that percent encoding produces are escaped.          *)
HasReversiblePrefix(id) == Head(id) = "@e="

HasEscapePrefix(id) == Head(id) \in Marks \cup Prefixed

isRawSafe(id) ==
    /\ id # <<>> /\ id \notin Long
    /\ ~ HasEscapePrefix(id)
    /\ id \notin Reserved
    /\ Head(id) \notin Unsafe

EncodedName(name, isHashed) == [name |-> name, hashed |-> isHashed]

EncodeID(id) ==
    IF isRawSafe(id) THEN EncodedName(id, FALSE)
    ELSE IF id \notin EscLong THEN EncodedName(<<"@e=">> \o id, FALSE)
    ELSE EncodedName(<<"@h=">> \o id, TRUE)

IsHashedName(name) == name # <<>> /\ Head(name) = "@h="
IsEncoded(name) == name # <<>> /\ Head(name) \in {"@e=", "@e~"}
Undecodable(name) == name \in Reserved \/ (name # <<>> /\ Head(name) = "@e!")

(* Mutant: what was decoded once is decoded again.                         *)
DecodeTwice(name) ==
    LET once == IF IsEncoded(name) THEN Tail(name) ELSE name
    IN IF IsEncoded(once) THEN Tail(once) ELSE once

(* For names that are neither hashed nor undecodable.                      *)
DecodeID(name) == IF IsEncoded(name) THEN Tail(name) ELSE name

-----------------------------------------------------------------------------
(* contract/paths.go: a path is the sequence of its segments.              *)

Node(kind, index, id, hashedName) ==
    [kind |-> kind, index |-> index, id |-> id, hashedName |-> hashedName]
Invalid == Node("invalid", <<>>, <<>>, <<>>)

MountFiles == {<<"profile.md">>, <<".sync.json">>}
IndexFiles == MountFiles \cup {<<".mapping.json">>, <<".fields.json">>}

validIndexName(name) == name # <<>> /\ name \notin Long \cup BadIndex \cup Dots

ParseLeaf(index, leaf) ==
    IF leaf \in IndexFiles THEN Node("virtual", index, <<>>, <<>>)
    ELSE IF IsHashedName(leaf) THEN Node("document", index, <<>>, leaf)
    ELSE IF Undecodable(leaf) THEN Invalid
    ELSE Node("document", index, DecodeID(leaf), <<>>)

ParsePath(rel) ==
    CASE Len(rel) = 0 -> Node("root", <<>>, <<>>, <<>>)
      [] Len(rel) = 1 -> IF rel[1] \in MountFiles THEN Node("virtual", <<>>, <<>>, <<>>)
                         ELSE IF validIndexName(rel[1]) THEN Node("index", rel[1], <<>>, <<>>)
                         ELSE Invalid
      [] Len(rel) = 2 -> IF validIndexName(rel[1]) THEN ParseLeaf(rel[1], rel[2]) ELSE Invalid
      [] OTHER -> Invalid

-----------------------------------------------------------------------------
(* routing/routing.go, for one mount root.                                 *)

Mount == <<"esfs">>

(* filepath.Clean of an absolute path                                      *)
Walk(done, seg) ==
    IF seg = <<".">> THEN done
    ELSE IF seg # <<"..">> THEN Append(done, seg)
    ELSE IF done = <<>> THEN done ELSE Front(done)

Clean(path) ==
    IF \A k \in DOMAIN path : path[k] \notin Dots THEN path ELSE FoldLeft(Walk, <<>>, path)

(* The node a path denotes; Invalid stands for paths outside the mount.    *)
Resolve(cwd, path) ==
    LET abs == Clean(cwd \o path)
    IN IF abs # <<>> /\ Head(abs) = Mount THEN ParsePath(Tail(abs)) ELSE Invalid

-----------------------------------------------------------------------------
(* State.                                                                  *)

HashedNames == {<<"@h=">> \o id : id \in Ids}
ReverseMap == UNION {[S -> Ids] : S \in SUBSET HashedNames}

Entry == [index : Index, name : Text, id : Text]
Named(i, name, id) == [index |-> i, name |-> name, id |-> id]

Idle == [op |-> "idle"]
CallState == {Idle} \cup [op : {"read", "write", "unlink"},
                          pc : {"get", "put", "delete"}, entry : Entry]

Hit == [index : Index, id : Ids]

(* told pairs the name that was printed with the document that was meant,  *)
(* and says by what it was printed: by a listing of this mount since it    *)
(* started, by ls or find for an operand that is a hashed name, or by any  *)
(* other command or earlier listing.  Which entries it keeps is arbitrary. *)
Told == [entry : Entry, by : {"mount", "hashedOperand", "other"}]

TypeOK ==
    /\ hashed \in [Index -> ReverseMap]
    /\ call \in [Proc -> CallState]
    /\ listing \in SUBSET Hit /\ \A s, t \in listing : s = t
    /\ told \in SUBSET Told /\ \A s, t \in told : s = t
    /\ served \in SUBSET Entry /\ \A s, t \in served : s = t

NothingHashed == [i \in Index |-> [name \in {} |-> <<>>]]

Init ==
    /\ hashed = NothingHashed
    /\ call = [g \in Proc |-> Idle]
    /\ listing = {}
    /\ told = {} /\ served = {}

Tell(entry, by) == told' \in {told, {[entry |-> entry, by |-> by]}}
Serve(entry) == served' = {entry}

(* ESClient.rememberHashed                                                 *)
Extended(f, x, y) == [n \in DOMAIN f \cup {x} |-> IF n = x THEN y ELSE f[n]]

(* Mutant: names that are not hashed are recorded as well.                 *)
RememberAll(map, i, id) == [map EXCEPT ![i] = Extended(@, EncodeID(id).name, id)]

RememberHashed(map, i, id) ==
    IF EncodeID(id).hashed THEN [map EXCEPT ![i] = Extended(@, EncodeID(id).name, id)] ELSE map

-----------------------------------------------------------------------------
(* Listing an index directory: ESClient.List under VFS.ReadDirStream.      *)

(* Mutant: only Get and Put remember.                                      *)
ListRemembersNothing(i, id) == hashed

ListRemembers(i, id) == RememberHashed(hashed, i, id)

(* The producer remembers a hit, then hands it to the forwarder.           *)
ListProduce(i, id) ==
    /\ listing = {}
    /\ hashed' = ListRemembers(i, id)
    /\ listing' = {[index |-> i, id |-> id]}
    /\ UNCHANGED <<call, told, served>>

ListEmit(i, id) ==
    /\ [index |-> i, id |-> id] \in listing
    /\ listing' = {}
    /\ Tell(Named(i, EncodeID(id).name, id), "mount")
    /\ UNCHANGED <<hashed, call, served>>

-----------------------------------------------------------------------------
(* Reading, writing and deleting a document by its name.                   *)

Known(n) == n.hashedName = <<>> \/ n.hashedName \in DOMAIN hashed[n.index]

(* VFS.resolveDocID, for nodes that are Known.                             *)
ResolvedID(n) == IF n.hashedName = <<>> THEN n.id ELSE hashed[n.index][n.hashedName]

(* The kernel resolves . and .. itself, and refuses names that are long.   *)
Askable(name) == name \notin Dots \cup Long

Asked(i, name) == ParsePath(<<i, name>>)

Start(g, op, pc, i, name) ==
    LET n == Asked(i, name) IN
    /\ call[g] = Idle
    /\ Askable(name) /\ n.kind = "document" /\ Known(n)
    /\ call' = [call EXCEPT ![g] = [op |-> op, pc |-> pc, entry |-> Named(i, name, ResolvedID(n))]]
    /\ UNCHANGED <<hashed, listing, told, served>>

(* Stat and ReadAll through renderDocument; OpenWrite; Unlink with delete  *)
(* sync enabled.  All begin with resolveDocID, and none goes on without an *)
(* id: where OpenWrite would fall back on the node's id, there is none.    *)
Read(g, i, name) == Start(g, "read", "get", i, name)
OpenWrite(g, i, name) == Start(g, "write", "get", i, name)
Unlink(g, i, name) == Start(g, "unlink", "delete", i, name)

(* ESClient.Get has its answer, found or not.  An open for writing goes on *)
(* without a document, and later flushes.  The document cache is left out: *)
(* a hit finds what an earlier Get or Put of the same id remembered.       *)
GetDone(g) ==
    LET e == call[g].entry IN
    /\ call[g] # Idle /\ call[g].pc = "get"
    /\ call' = [call EXCEPT ![g] = IF call[g].op = "write" THEN [call[g] EXCEPT !.pc = "put"]
                                   ELSE Idle]
    /\ \/ UNCHANGED <<hashed, served>>
       \/ /\ e.id \in Ids
          /\ hashed' = RememberHashed(hashed, e.index, e.id) /\ Serve(e)
    /\ UNCHANGED <<listing, told>>

(* ESClient.Put has stored the document.                                   *)
PutDone(g) ==
    LET e == call[g].entry IN
    /\ call[g] # Idle /\ call[g].pc = "put" /\ e.id \in Ids
    /\ hashed' = RememberHashed(hashed, e.index, e.id)
    /\ Serve(e)
    /\ call' = [call EXCEPT ![g] = Idle]
    /\ UNCHANGED <<listing, told>>

(* ESClient.Delete                                                         *)
DeleteDone(g) ==
    LET e == call[g].entry IN
    /\ call[g] # Idle /\ call[g].pc = "delete" /\ e.id \in Ids
    /\ Serve(e)
    /\ call' = [call EXCEPT ![g] = Idle]
    /\ UNCHANGED <<hashed, listing, told>>

(* An error, or a file closed without a change; or the answer to a PUT or  *)
(* DELETE that was applied is lost.                                        *)
GiveUp(g) ==
    LET e == call[g].entry IN
    /\ call[g] # Idle
    /\ \/ UNCHANGED served
       \/ call[g].pc # "get" /\ e.id \in Ids /\ Serve(e)
    /\ call' = [call EXCEPT ![g] = Idle]
    /\ UNCHANGED <<hashed, listing, told>>

-----------------------------------------------------------------------------
(* The mount ends, or crashes, and is started again.                       *)
Remount ==
    /\ hashed' = NothingHashed
    /\ call' = [g \in Proc |-> Idle]
    /\ listing' = {}
    /\ told' = {[t EXCEPT !.by = IF @ = "mount" THEN "other" ELSE @] : t \in told}
    /\ UNCHANGED <<served>>

(* Other processes: find, ls of an index and grep print what Elasticsearch *)
(* holds, esfs path any id.  What their clients remember dies with them.   *)
PrintPath(i, id) ==
    /\ Tell(Named(i, EncodeID(id).name, id), "other")
    /\ UNCHANGED <<hashed, call, listing, served>>

(* The document that an operand means: the one a hashed name was made for  *)
(* although the node, which does not resolve it, has no id.                *)
Meant(n) == IF n.hashedName = <<>> THEN n.id ELSE Tail(n.hashedName)

(* ls and find of a document operand print the path of the node's id: for  *)
(* a hashed name the path of the empty id, whatever document is meant.  An *)
(* operand that ends in . or .. is no document.                            *)
PrintOperand(i, name) ==
    LET n == Resolve(<<Mount, i>>, <<name>>) IN
    /\ name \notin Dots /\ n.kind = "document"
    /\ Tell(Named(n.index, EncodeID(n.id).name, Meant(n)),
            IF n.hashedName = <<>> THEN "other" ELSE "hashedOperand")
    /\ UNCHANGED <<hashed, call, listing, served>>

-----------------------------------------------------------------------------
(* Names that are used: typed ones, and those that ids have.               *)
Names == Typed \cup {EncodeID(id).name : id \in Ids}

(* The operands for a file, each from a directory above it.                *)
Operand(cwd, path) == [cwd |-> cwd, path |-> path]
OperandsFor(i, name) == {Operand(<<>>, <<Mount, i, name>>), Operand(<<Mount>>, <<i, name>>),
                         Operand(<<Mount, i>>, <<name>>)}

Next ==
    \/ \E i \in Index, id \in Ids : ListProduce(i, id) \/ ListEmit(i, id)
    \/ \E g \in Proc, i \in Index, name \in Names :
        Read(g, i, name) \/ OpenWrite(g, i, name) \/ Unlink(g, i, name)
    \/ \E g \in Proc : GetDone(g) \/ PutDone(g) \/ DeleteDone(g) \/ GiveUp(g)
    \/ Remount
    \/ \E i \in Index, id \in Ids : PrintPath(i, id)
    \/ \E i \in Index, name \in Names : PrintOperand(i, name)

Spec == Init /\ [][Next]_vars

-----------------------------------------------------------------------------
(* Every name that a directory of this mount has shown since it started    *)
(* leads to the document it was shown for, however long the id, whatever   *)
(* was read, written or deleted since, and never to a virtual file.  Ids   *)
(* . and .. are excepted: EncodeID leaves them as they are.                *)
(* VFS.ReadDirStream, ESClient.List, VFS.resolveDocID                      *)
ShownResolves ==
    \A t \in told : t.by = "mount" /\ t.entry.id \notin Dots =>
        LET n == Asked(t.entry.index, t.entry.name)
        IN Askable(t.entry.name) /\ n.kind = "document" /\ Known(n) /\ ResolvedID(n) = t.entry.id

(* A name never comes to mean another document: what the mount reads,      *)
(* stores or deletes under a name is the document for which any listing or *)
(* command ever printed that name, also before a restart and also when the *)
(* name cannot be resolved any more.  The name that ls and find print for  *)
(* a hashed operand is wrong, but reaches no other document: none at all.  *)
(* EncodeID, DecodeID, VFS.OpenWrite, ESClient.rememberHashed              *)
NamesKeepMeaning ==
    \A t \in told, s \in served :
        t.entry.index = s.index /\ t.entry.name = s.name => t.entry.id = s.id

(* A path that ls, find, grep or esfs path printed, used as an operand of  *)
(* a routed command from any working directory, is the same document: its  *)
(* id, or the hashed name of its id.  Ids . and .. are excepted, and so is *)
(* what ls and find print for an operand that is itself a hashed name: the *)
(* path of the empty id, which does not lead back (RunLs, RunFind).        *)
(* routing.Resolve, contract.ParsePath                                     *)
PrintedPathsComeBack ==
    \A t \in told : t.by # "hashedOperand" /\ t.entry.id \notin Dots =>
        \A o \in OperandsFor(t.entry.index, t.entry.name) :
            LET n == Resolve(o.cwd, o.path) IN
            /\ n.kind = "document" /\ n.index = t.entry.index
            /\ \/ n.hashedName = <<>> /\ n.id = t.entry.id
               \/ n.hashedName = EncodeID(t.entry.id).name /\ EncodeID(t.entry.id).hashed
=============================================================================
