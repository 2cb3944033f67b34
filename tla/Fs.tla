-------------------------------- MODULE Fs ---------------------------------
(***************************************************************************)
(* The file system as crates/sortinghat-fs uses it: names bound to inodes,  *)
(* the identity samples the code compares, the no-replace rename, the       *)
(* exclusive create and the unlink by name, and what the user's other       *)
(* programs may do to the same files at any time.                           *)
(***************************************************************************)
EXTENDS Paths, FiniteSets

CONSTANTS
    MaxIno,    \* bound: how many inodes are ever created
    Fold,      \* the case-folded form of a name
    DeviceOf   \* the device a directory is on

ASSUME FsAssumption ==
    /\ MaxIno \in Nat
    /\ Fold \in [Name -> Name]
    /\ DOMAIN DeviceOf = Dir

VARIABLES
    entry,       \* the inode a path is bound to
    version,     \* the content of each inode
    nextIno,     \* the next inode that was never used
    nextVersion  \* the next content the user has not written yet

fsVars == <<entry, version, nextIno, nextVersion>>

Ino   == 1..MaxIno
NoIno == 0

FsTypeOK ==
    /\ entry \in [Path -> Ino \cup {NoIno}]
    /\ version \in [Ino -> Version]
    /\ nextIno \in 1..(MaxIno + 1)
    /\ nextVersion \in 1..(MaxVersion + 1)

-----------------------------------------------------------------------------
(***************************************************************************)
(* Identity: device, inode, size and mtime.  The device is that of the      *)
(* inode, size and mtime are those of the version.  Reading it fails on a   *)
(* file that is not single-link (UnsafeSource).                             *)
(***************************************************************************)
Identity == [ino : Ino \cup {NoIno}, version : Version]

NoIdentity == [ino |-> NoIno, version |-> 0]

nlink(i) == Cardinality({p \in Path : entry[p] = i})

identity_fd(i) == [ino |-> i, version |-> version[i]]

exists(p) == entry[p] # NoIno

(* Identity::read and the identity of an opened descriptor succeed. *)
single_link(p) == exists(p) /\ nlink(entry[p]) = 1

(* Wrong variant: size and mtime are not compared. *)
matches_inode(p, expected) == single_link(p) /\ entry[p] = expected.ino

matches(p, expected) == single_link(p) /\ identity_fd(entry[p]) = expected

sha256_file(p) == version[entry[p]]

(* Wrong variant: compares names exactly. *)
destination_exists(p) == exists(p)

(* Some name in the folder of p equals the name of p up to case. *)
destination_exists_case_folded(p) ==
    \E n \in Name : /\ Fold[n] = Fold[file_name(p)]
                    /\ exists(<<parent(p), n>>)

same_device(d, e) == DeviceOf[d] = DeviceOf[e]

-----------------------------------------------------------------------------
(* Wrong variant: a plain rename. *)
renameat_replace(from, to) ==
    /\ exists(from)
    /\ entry' = [entry EXCEPT ![from] = NoIno, ![to] = entry[from]]
    /\ UNCHANGED <<version, nextIno, nextVersion>>

(* renameat2(RENAME_NOREPLACE): fails when the target name is taken. *)
renameat_noreplace(from, to) ==
    /\ exists(from) /\ ~exists(to)
    /\ entry' = [entry EXCEPT ![from] = NoIno, ![to] = entry[from]]
    /\ UNCHANGED <<version, nextIno, nextVersion>>

(* unlinkat(parent, name): removes whatever the name is bound to now. *)
unlinkat(p) ==
    /\ exists(p)
    /\ entry' = [entry EXCEPT ![p] = NoIno]
    /\ UNCHANGED <<version, nextIno, nextVersion>>

(* openat(O_CREAT|O_EXCL): an empty file under a name that was free. *)
create_exclusive(p) ==
    /\ ~exists(p) /\ nextIno \in Ino
    /\ entry' = [entry EXCEPT ![p] = nextIno]
    /\ version' = [version EXCEPT ![nextIno] = Torn]
    /\ nextIno' = nextIno + 1
    /\ UNCHANGED nextVersion

(* The bytes written through the descriptor of inode i. *)
write_all(i, v) ==
    /\ version' = [version EXCEPT ![i] = v]
    /\ UNCHANGED <<entry, nextIno, nextVersion>>

-----------------------------------------------------------------------------
(* What other programs do to a file the user sees. *)
user_create(p) ==
    /\ ~exists(p) /\ nextIno \in Ino /\ nextVersion \in Version
    /\ entry' = [entry EXCEPT ![p] = nextIno]
    /\ version' = [version EXCEPT ![nextIno] = nextVersion]
    /\ nextIno' = nextIno + 1
    /\ nextVersion' = nextVersion + 1

user_write(p) ==
    /\ exists(p) /\ nextVersion \in Version
    /\ version' = [version EXCEPT ![entry[p]] = nextVersion]
    /\ nextVersion' = nextVersion + 1
    /\ UNCHANGED <<entry, nextIno>>

user_remove(p) ==
    /\ exists(p)
    /\ entry' = [entry EXCEPT ![p] = NoIno]
    /\ UNCHANGED <<version, nextIno, nextVersion>>

user_rename(p, q) ==
    /\ p # q /\ exists(p) /\ same_device(parent(p), parent(q))
    /\ entry' = [entry EXCEPT ![p] = NoIno, ![q] = entry[p]]
    /\ UNCHANGED <<version, nextIno, nextVersion>>

user_link(p, q) ==
    /\ exists(p) /\ ~exists(q) /\ same_device(parent(p), parent(q))
    /\ entry' = [entry EXCEPT ![q] = entry[p]]
    /\ UNCHANGED <<version, nextIno, nextVersion>>

user_step(paths) ==
    \/ \E p \in paths : user_create(p)
    \/ \E p \in paths : user_write(p)
    \/ \E p \in paths : user_remove(p)
    \/ \E p \in paths, q \in paths : user_rename(p, q)
    \/ \E p \in paths, q \in paths : user_link(p, q)
=============================================================================
