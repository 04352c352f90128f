---------------------------- MODULE PluginCapture ----------------------------
(***************************************************************************)
(* The capture of a directory tree (validation/plugin_capture.py) beside a *)
(* writer that changes it: one traversal that opens and reads entry by     *)
(* entry through descriptors, then one pass that reopens every entry and   *)
(* compares its identity and metadata with what the traversal saw.         *)
(*                                                                         *)
(* The documentation calls the result no atomic snapshot, and it is none:  *)
(* two writes of one size within a tick of the file system's clock leave   *)
(* the metadata as they were, and neither pass sees the second.  Where the *)
(* metadata do tell (no such pair of changes), the capture is the tree at  *)
(* one moment: CaptureIsSnapshot.                                          *)
(***************************************************************************)
EXTENDS Naturals, Sequences, FiniteSets

CONSTANTS
    Root,          \* the inode of the directory that is captured
    Directories, Files,
    Specials,      \* inodes that are neither, or carry special mode bits
    Names,         \* names of directory entries
    UnsafeNames,   \* names that no package may contain
    Bytes,         \* what a file may hold
    Missing,       \* no inode
    MaxFiles, MaxResources, MaxDepth,
    MaxChanges     \* bound on the writer: how often it changes an inode

Inodes   == Directories \cup Files \cup Specials
Listings == [Names -> Inodes \cup {Missing}]

ASSUME CaptureAssumption ==
    /\ Root \in Directories
    /\ Directories \cap Files = {} /\ Specials \cap (Directories \cup Files) = {}
    /\ Missing \notin Inodes

VARIABLES
    listing,    \* of each directory: the inode of each name
    bytes,      \* of each file: what it holds
    meta,       \* of each inode: its st_mode, st_size, st_mtime_ns and st_ctime_ns, as one stamp
    ties,       \* the inodes and stamps of changes that left the stamp as it was (not a variable of the program)
    stage,      \* traverse, confirm, captured or refused
    entries,    \* entries: of each path opened so far, its inode, its metadata and its parent
    listed,     \* of each listed directory's path: the inodes of its names when it was listed
    payloads,   \* payloads: of each path read, its bytes
    todo,       \* of each directory's path: the names not yet visited
    open,       \* the directories whose visit is not over
    at,         \* the directory being visited
    file,       \* the file being read (none when its path is that of the root)
    confirmed,  \* the paths _recheck_entries has compared
    moment      \* the tree when the traversal was over (not a variable of the program)

disk      == <<listing, bytes, meta, ties>>
traversal == <<entries, listed, payloads, todo, open, at, file>>
captureVars      == <<disk, stage, traversal, confirmed, moment>>

Top    == <<>>
NoFile == [path |-> Top, entry |-> Top, read |-> FALSE, bytes |-> Missing]

(* An entry: inode and metadata of one fstat, and where it was opened. *)
Entry(inode, up, name) == [inode |-> inode, meta |-> meta[inode], up |-> up, name |-> name]

Extend(f, x, value) == [y \in DOMAIN f \cup {x} |-> IF y = x THEN value ELSE f[y]]

Refuse == stage' = "refused" /\ UNCHANGED <<disk, traversal, confirmed, moment>>

-----------------------------------------------------------------------------
(* The writer.  A change of an inode gives it metadata it never had, or,   *)
(* of the same size and within one tick of the last change, the same (the  *)
(* bound counts one such change for each stamp).                           *)

Shows(i) == meta' = [meta EXCEPT ![i] = @ + 1] /\ UNCHANGED ties
Hides(i) == <<i, meta[i]>> \notin ties /\ ties' = ties \cup {<<i, meta[i]>>} /\ UNCHANGED meta

Changes(i) ==
    /\ Cardinality(UNION {{j} \X (1..meta[j]) : j \in Inodes}) + Cardinality(ties) < MaxChanges
    /\ Shows(i) \/ Hides(i)

WriteFile ==
    /\ \E f \in Files, b \in Bytes : bytes' = [bytes EXCEPT ![f] = b] /\ Changes(f)
    /\ UNCHANGED <<listing, stage, traversal, confirmed, moment>>

(* A name is created, removed, or bound to another inode.  A directory has *)
(* one name: it is moved by taking it away and putting it elsewhere.       *)
Unnamed(i) == i \in Directories => \A d \in Directories, n \in Names : listing[d][n] # i
Rebind ==
    /\ \E d \in Directories, n \in Names, i \in (Inodes \ {Root}) \cup {Missing} :
           i # d /\ Unnamed(i) /\ listing' = [listing EXCEPT ![d][n] = i] /\ Changes(d)
    /\ UNCHANGED <<bytes, stage, traversal, confirmed, moment>>

Writer == WriteFile \/ Rebind

-----------------------------------------------------------------------------
(* visit *)

InDirectory == stage = "traverse" /\ file.path = Top /\ at \in open

(* os.scandir of the directory: one listing, within the resource budget. *)
Present(l) == {n \in Names : l[n] # Missing}
Resources  == Cardinality(UNION {{<<p, n>> : n \in Present(listed[p])} : p \in DOMAIN listed})

ListDirectory ==
    /\ InDirectory /\ at \notin DOMAIN listed
    /\ LET l == listing[entries[at].inode]
       IN  /\ Resources + Cardinality(Present(l)) <= MaxResources
           /\ listed' = Extend(listed, at, l)
           /\ todo' = Extend(todo, at, Present(l))
    /\ UNCHANGED <<disk, stage, entries, payloads, open, at, file, confirmed, moment>>

Visiting(n) == InDirectory /\ at \in DOMAIN listed /\ n \in todo[at]
Found(n)    == listing[entries[at].inode][n]
Visited(n)  == todo' = [todo EXCEPT ![at] = @ \ {n}]

(* A child directory is opened without following links, and visited. *)
EnterDirectory ==
    /\ \E n \in Names \ UnsafeNames :
           /\ Visiting(n) /\ Found(n) \in Directories /\ Len(at) < MaxDepth
           /\ Visited(n)
           /\ entries' = Extend(entries, Append(at, n), Entry(Found(n), at, n))
           /\ open' = open \cup {Append(at, n)} /\ at' = Append(at, n)
    /\ UNCHANGED <<disk, stage, listed, payloads, file, confirmed, moment>>

(* _read_file: open and fstat, *)
OpenFile ==
    /\ \E n \in Names \ UnsafeNames :
           /\ Visiting(n) /\ Found(n) \in Files /\ Cardinality(DOMAIN payloads) < MaxFiles
           /\ Visited(n)
           /\ file' = [path |-> Append(at, n), entry |-> Entry(Found(n), at, n), read |-> FALSE, bytes |-> Missing]
    /\ UNCHANGED <<disk, stage, entries, listed, payloads, open, at, confirmed, moment>>

(* read, *)
ReadFile ==
    /\ stage = "traverse" /\ file.path # Top /\ ~file.read
    /\ file' = [file EXCEPT !.read = TRUE, !.bytes = bytes[file.entry.inode]]
    /\ UNCHANGED <<disk, stage, entries, listed, payloads, todo, open, at, confirmed, moment>>

(* and fstat again: bytes read while the file changed are refused. *)
CloseFile ==
    /\ stage = "traverse" /\ file.path # Top /\ file.read
    /\ IF file.entry.meta = meta[file.entry.inode]
       THEN /\ entries' = Extend(entries, file.path, file.entry)
            /\ payloads' = Extend(payloads, file.path, file.bytes)
            /\ file' = NoFile
            /\ UNCHANGED <<disk, stage, listed, todo, open, at, confirmed, moment>>
       ELSE Refuse

(* What may not be in a package, is gone, is of another kind, or too much. *)
RefuseEntry ==
    /\ \/ \E n \in Names :
              /\ Visiting(n)
              /\ \/ n \in UnsafeNames
                 \/ Found(n) = Missing \/ Found(n) \in Specials
                 \/ Found(n) \in Directories /\ Len(at) >= MaxDepth
                 \/ Found(n) \in Files /\ Cardinality(DOMAIN payloads) >= MaxFiles
       \/ /\ InDirectory /\ at \notin DOMAIN listed
          /\ Resources + Cardinality(Present(listing[entries[at].inode])) > MaxResources
    /\ Refuse

(* The end of a directory's visit: it is as it was when it was opened.     *)
(* The visit of the root ends the traversal.                               *)
LeaveDirectory ==
    /\ InDirectory /\ at \in DOMAIN listed /\ todo[at] = {}
    /\ IF entries[at].meta = meta[entries[at].inode]
       THEN /\ open' = open \ {at} /\ at' = entries[at].up
            /\ IF open' = {}
               THEN stage' = "confirm" /\ moment' = [listing |-> listing, bytes |-> bytes, meta |-> meta]
               ELSE UNCHANGED <<stage, moment>>
            /\ UNCHANGED <<disk, entries, listed, payloads, todo, file, confirmed>>
       ELSE Refuse

-----------------------------------------------------------------------------
(* _recheck_entries.  A path is walked from the root again; whichever way  *)
(* the walk took among concurrent changes, what it ends at has the device, *)
(* inode and metadata of the entry, or is refused.                         *)
Confirm ==
    /\ stage = "confirm"
    /\ \E p \in DOMAIN entries \ confirmed :
           /\ meta[entries[p].inode] = entries[p].meta
           /\ confirmed' = confirmed \cup {p}
    /\ UNCHANGED <<disk, stage, traversal, moment>>

(* The entry, or a name on the way to it, is not what it was. *)
Moved(p) == entries[p].up \in DOMAIN entries /\ listing[entries[entries[p].up].inode][entries[p].name] # entries[p].inode
Drift ==
    /\ stage = "confirm"
    /\ \E p \in DOMAIN entries \ confirmed :
           \/ meta[entries[p].inode] # entries[p].meta
           \/ p # Top /\ Moved(p)
    /\ Refuse

(* Defect: the second pass is left out. *)
DeliverUnconfirmed ==
    /\ stage = "confirm"
    /\ stage' = "captured"
    /\ UNCHANGED <<disk, traversal, confirmed, moment>>

(* The capture is returned. *)
Deliver ==
    /\ stage = "confirm" /\ confirmed = DOMAIN entries
    /\ stage' = "captured"
    /\ UNCHANGED <<disk, traversal, confirmed, moment>>

Settled == stage \in {"captured", "refused"} /\ UNCHANGED captureVars

-----------------------------------------------------------------------------
CaptureInit ==
    /\ listing \in [Directories -> Listings]
    /\ bytes \in [Files -> Bytes]
    /\ meta = [i \in Inodes |-> 0] /\ ties = {}
    /\ stage = "traverse"
    /\ entries = [p \in {Top} |-> Entry(Root, Top, Missing)]
    /\ listed = [p \in {} |-> Missing] /\ payloads = [p \in {} |-> Missing] /\ todo = [p \in {} |-> {}]
    /\ open = {Top} /\ at = Top /\ file = NoFile
    /\ confirmed = {}
    /\ moment = [listing |-> listing, bytes |-> bytes, meta |-> meta]

Traversal == ListDirectory \/ EnterDirectory \/ OpenFile \/ ReadFile \/ CloseFile \/ RefuseEntry \/ LeaveDirectory
Recheck   == Confirm \/ Drift \/ Deliver

CaptureNext == Traversal \/ Recheck \/ (stage \in {"traverse", "confirm"} /\ Writer) \/ Settled

CaptureSpec == CaptureInit /\ [][CaptureNext]_captureVars

-----------------------------------------------------------------------------
(* The metadata of the entry stood for two states of its inode. *)
Tied(entry) == <<entry.inode, entry.meta>> \in ties

(* "Capture rechecks each entry's identity and metadata after traversal":  *)
(* what is returned is the tree as it stood at one moment, between the two *)
(* passes, although it was read at many: the root is the root, every       *)
(* directory then held exactly the names captured below it, bound to the   *)
(* inodes captured, and every file its bytes.  Only an entry that was      *)
(* changed under the very metadata it was captured with may differ, and it *)
(* alone: what else was captured is still of that moment.                  *)
CaptureIsSnapshot ==
    stage = "captured" =>
        /\ Top \in DOMAIN entries /\ entries[Top].inode = Root
        /\ \A p \in DOMAIN entries : ~Tied(entries[p]) =>
               IF entries[p].inode \in Files
               THEN p \in DOMAIN payloads /\ payloads[p] = moment.bytes[entries[p].inode]
               ELSE \A n \in Names :
                        LET inode == moment.listing[entries[p].inode][n]
                        IN  IF inode = Missing THEN Append(p, n) \notin DOMAIN entries
                            ELSE Append(p, n) \in DOMAIN entries /\ entries[Append(p, n)].inode = inode
=============================================================================
