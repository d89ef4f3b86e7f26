---------------------------- MODULE SigningKeyFile ----------------------------
(***************************************************************************)
(* dispatch_lease._secure_read_signing_key_file: the private key that      *)
(* signs leases is read from a file while an operator may be rotating it,  *)
(* by renaming a new file over it or by rewriting it in place, or changing *)
(* its mode.  The reader takes the file's metadata at the name, again when *)
(* it is open, and again after the last read, and gives up on any          *)
(* difference.                                                             *)
(*                                                                         *)
(* Content is a sequence of blocks; a read returns any non-empty part of   *)
(* what is left.  The time stamps of a file change with every change of it *)
(* (the kernel's mtime and ctime).  Inode numbers are reused.              *)
(***************************************************************************)
EXTENDS Integers, Sequences, FiniteSets

CONSTANTS Inodes,     \* inode numbers
          Blocks,     \* what a block may hold
          MaxSize,    \* _MAX_SIGNING_KEY_FILE_BYTES, in blocks
          MaxChanges, \* how often the file is changed during a read
          Nothing

VARIABLES
  file,     \* [Inodes -> [content, stamp, trusted]]
  name,     \* the inode at the configured path
  stamp,    \* the clock of the file system
  step, before, opened, fd, material,
  result    \* what the reader returned, or Nothing
keyFile == <<file, name, stamp, step, before, opened, fd, material, result>>
reader == <<step, before, opened, fd, material, result>>

ASSUME SizeAssumption == MaxSize \in Nat /\ MaxChanges \in Nat
ASSUME NothingAssumption == Nothing \notin Inodes

Contents == UNION {[1..n -> Blocks] : n \in 0..MaxSize + 1}

KeyFileInit ==
  /\ file \in [Inodes -> [content : Contents, stamp : {0}, trusted : BOOLEAN]]
  /\ name \in Inodes /\ stamp = 0
  /\ \A i \in Inodes \ {name} : file[i].content = <<>> /\ file[i].trusted
  /\ step = "stat" /\ before = Nothing /\ opened = Nothing /\ fd = Nothing
  /\ material = <<>> /\ result = Nothing

---------------------------------------------------------------------------
\* os.stat and os.fstat.
Metadata(i) == [inode |-> i, size |-> Len(file[i].content), stamp |-> file[i].stamp,
                trusted |-> file[i].trusted]
\* _metadata_is_trusted_key_file: regular, owned, not shared, 0 < size <= limit.
TrustedKeyFile(m) == m.trusted /\ m.size \in 1..MaxSize

GiveUp == step' = "done" /\ UNCHANGED <<before, opened, fd, material, result>>

\* os.stat at the path, without following links.
Stat ==
  /\ step = "stat"
  /\ IF TrustedKeyFile(Metadata(name))
     THEN step' = "open" /\ before' = Metadata(name) /\ UNCHANGED <<opened, fd, material, result>>
     ELSE GiveUp
  /\ UNCHANGED <<file, name, stamp>>
Open ==
  /\ step = "open"
  /\ fd' = name /\ step' = "fstat"
  /\ UNCHANGED <<file, name, stamp, before, opened, material, result>>
\* Variant of SameFile: only device and inode are compared.
SameFileByInode(m, n) == m.inode = n.inode
\* The comparisons of the two metadata tuples.
SameFile(m, n) == m = n
Fstat ==
  /\ step = "fstat"
  /\ IF TrustedKeyFile(Metadata(fd)) /\ SameFile(Metadata(fd), before)
     THEN step' = "read" /\ opened' = Metadata(fd) /\ UNCHANGED <<before, fd, material, result>>
     ELSE GiveUp
  /\ UNCHANGED <<file, name, stamp>>

\* What the loop may still read: one more than the limit in all.
Remaining == MaxSize + 1 - Len(material)
\* One os.read: some blocks at the current offset, at most what remains.
Read ==
  /\ step = "read" /\ Remaining > 0
  /\ LET left == SubSeq(file[fd].content, Len(material) + 1, Len(file[fd].content))
     IN IF left = <<>>
        THEN step' = "check" /\ UNCHANGED material
        ELSE /\ \E n \in 1..Len(left) : n <= Remaining /\ material' = material \o SubSeq(left, 1, n)
             /\ UNCHANGED step
  /\ UNCHANGED <<file, name, stamp, before, opened, fd, result>>
ReadEnough ==
  /\ step = "read" /\ Remaining <= 0
  /\ step' = "check"
  /\ UNCHANGED <<file, name, stamp, before, opened, fd, material, result>>
Check ==
  /\ step = "check"
  /\ IF /\ Len(material) <= MaxSize /\ Len(material) = opened.size
        /\ TrustedKeyFile(Metadata(fd)) /\ SameFile(Metadata(fd), opened)
     THEN step' = "done" /\ result' = material /\ UNCHANGED <<before, opened, fd, material>>
     ELSE GiveUp
  /\ UNCHANGED <<file, name, stamp>>

\* Any system call may fail.
SystemError == step # "done" /\ GiveUp /\ UNCHANGED <<file, name, stamp>>

---------------------------------------------------------------------------
\* A change of the file at inode i, now at inode n under the path.
Change(i, f, n) ==
  /\ stamp < MaxChanges /\ step # "done"
  /\ stamp' = stamp + 1
  /\ file' = [file EXCEPT ![i] = [f EXCEPT !.stamp = stamp + 1]]
  /\ name' = n
  /\ UNCHANGED reader
\* A new file is renamed over the old one; it may get the number of a file
\* that no longer exists, but not of one that is open.
Rename(i, c) ==
  /\ i # fd
  /\ Change(i, [content |-> c, stamp |-> 0, trusted |-> TRUE], i)
Truncate == Change(name, [file[name] EXCEPT !.content = <<>>], name)
\* A block is written in place, or appended.
WriteAt(k, b) ==
  /\ k <= Len(file[name].content) + 1 /\ k <= MaxSize + 2
  /\ Change(name, [file[name] EXCEPT !.content =
                     [j \in 1..(IF k > Len(@) THEN k ELSE Len(@)) |-> IF j = k THEN b ELSE @[j]]], name)
Chmod == Change(name, [file[name] EXCEPT !.trusted = ~@], name)

KeyFileNext ==
  \/ Stat \/ Open \/ Fstat \/ Read \/ ReadEnough \/ Check \/ SystemError \/ Truncate \/ Chmod
  \/ \E i \in Inodes, c \in Contents : Rename(i, c)
  \/ \E k \in 1..MaxSize + 2, b \in Blocks : WriteAt(k, b)
KeyFileSpec == KeyFileInit /\ [][KeyFileNext]_keyFile

---------------------------------------------------------------------------

\* What is returned is the whole content the open file has at that moment, and
\* the file is trusted then: never parts of two keys.
ReadIsOneVersion == result # Nothing => result = file[fd].content /\ file[fd].trusted

\* Whatever the file grows to, the reader takes in at most one block more than
\* the limit, and never returns more than the limit.
ReadIsBounded ==
  /\ Len(material) <= MaxSize + 1
  /\ result # Nothing => Len(result) \in 1..MaxSize
\* The inductive invariant.  As long as the open file has the stamp it had when
\* it was opened, what was read so far is the beginning of its content.
Files ==
  /\ file \in [Inodes -> [content : Seq(Blocks), stamp : Nat, trusted : BOOLEAN]]
  /\ name \in Inodes /\ stamp \in Nat
  /\ \A i \in Inodes : file[i].stamp <= stamp
Reading ==
  /\ step \in {"stat", "open", "fstat", "read", "check", "done"}
  /\ material \in Seq(Blocks) /\ Len(material) <= MaxSize + 1
  /\ step \in {"stat", "open", "fstat"} => material = <<>>
  /\ step \in {"stat", "open"} => fd = Nothing
  /\ step \in {"fstat", "read", "check"} => fd \in Inodes
  /\ step # "done" => result = Nothing
Prefix ==
  step \in {"read", "check"} =>
    /\ opened.stamp \in Nat /\ opened.stamp <= stamp
    /\ file[fd].stamp = opened.stamp =>
         /\ opened = Metadata(fd)
         /\ Len(material) <= Len(file[fd].content)
         /\ \A j \in 1..Len(material) : material[j] = file[fd].content[j]
KeyFileInv == Files /\ Reading /\ Prefix /\ ReadIsOneVersion /\ ReadIsBounded
=============================================================================
