------------------------------- MODULE SyncIO -------------------------------
(***************************************************************************)
(* The synchronous file calls of runtime/src/diskio.c.  fread and fwrite   *)
(* take the descriptor out of the FILE once and then loop over pread or    *)
(* write, which may transfer less than asked, be interrupted by the        *)
(* preemption timer, or fail; between two system calls other threads use,  *)
(* close and open files.  fwrite writes at the position of the descriptor  *)
(* and applies its offset to the buffer; fread reads at its offset.        *)
(* syncio_printf is the same write loop on the standard output.            *)
(***************************************************************************)
EXTENDS Naturals, Sequences

CONSTANTS Caller,        \* tasks on different threads
          Files,
          Fds,           \* descriptors, lowest first
          Content,       \* what the buffer of a caller holds
          Amounts, Offsets,  \* arguments of the calls
          MaxSize,       \* bound: the length of a file
          Idle           \* no descriptor, no file

(* The calls refuse n <= 0 and offset < 0; the caller's buffer is as long  *)
(* as it says.                                                             *)
ASSUME SyncAssumption ==
  /\ Content \in Seq(Nat) /\ Amounts \subseteq Nat \ {0} /\ Offsets \subseteq Nat
  /\ \A n \in Amounts, off \in Offsets : off + n <= Len(Content)
  /\ Fds \subseteq Nat /\ Idle \notin Fds /\ Idle \notin Files

VARIABLES disk,          \* external: the bytes of each file
          table,         \* external: the file a descriptor refers to
          pos,           \* external: the position of each descriptor
          handle,        \* the descriptor in the FILE of each file
          job,           \* the call a task is in, with its local variables
          moved,         \* history: what a call has moved, until it is disturbed
          crossed        \* history: the calls under which somebody wrote, moved or closed

syncVars == <<disk, table, pos, handle, job, moved, crossed>>

NoJob == [op |-> "none", file |-> Idle, fd |-> Idle, n |-> 0, off |-> 0, total |-> 0, pc |-> "idle"]

SyncInit ==
  /\ disk = [f \in Files |-> <<>>]
  /\ table = [d \in Fds |-> Idle] /\ pos = [d \in Fds |-> 0]
  /\ handle = [f \in Files |-> Idle]
  /\ job = [t \in Caller |-> NoJob]
  /\ moved = [t \in Caller |-> <<>>] /\ crossed = {}
-----------------------------------------------------------------------------
(* fopen gives a file the lowest free descriptor; fclose frees it, also    *)
(* under a call that has already read it from the FILE.                    *)
FreeFds == {d \in Fds : table[d] = Idle}

fopen(t, f) ==
  /\ job[t].pc = "idle" /\ handle[f] = Idle
  /\ \E d \in FreeFds :
       /\ \A g \in FreeFds : d <= g
       /\ table' = [table EXCEPT ![d] = f] /\ pos' = [pos EXCEPT ![d] = 0]
       /\ handle' = [handle EXCEPT ![f] = d]
  /\ UNCHANGED <<disk, job, moved, crossed>>

(* The calls by others on descriptor d or file f are disturbed; t has now  *)
(* moved s.                                                                *)
Hit(t, d, f) == {u \in Caller \ {t} : job[u].pc # "idle" /\ (job[u].fd = d \/ job[u].file = f)}
Disturb(t, d, f, s) ==
  /\ crossed' = crossed \cup Hit(t, d, f)
  /\ moved' = [u \in Caller |-> IF u = t THEN s ELSE IF u \in Hit(t, d, f) THEN <<>> ELSE moved[u]]

fclose(t, f) ==
  /\ job[t].pc = "idle" /\ handle[f] # Idle
  /\ table' = [table EXCEPT ![handle[f]] = Idle]
  /\ handle' = [handle EXCEPT ![f] = Idle]
  /\ Disturb(t, handle[f], f, <<>>)
  /\ UNCHANGED <<disk, pos, job>>

(* fseek(f, 0, whence): to the start, to the end, or nowhere. *)
fseek(t, f) ==
  /\ job[t].pc = "idle" /\ handle[f] # Idle
  /\ \E p \in {0, Len(disk[f])} : pos' = [pos EXCEPT ![handle[f]] = p]
  /\ Disturb(t, handle[f], f, <<>>)
  /\ UNCHANGED <<disk, table, handle, job>>
-----------------------------------------------------------------------------
Begin(t, op, f, n, off) ==
  /\ job[t].pc = "idle" /\ handle[f] # Idle
  /\ job' = [job EXCEPT ![t] = [op |-> op, file |-> f, fd |-> handle[f], n |-> n,
               off |-> off, total |-> 0, pc |-> "loop"]]
  /\ UNCHANGED <<disk, table, pos, handle, moved, crossed>>

In(t, op) == job[t].op = op /\ job[t].pc = "loop"
Advance(t, total, pc) ==
  job' = [job EXCEPT ![t] = [op |-> job[t].op, file |-> job[t].file, fd |-> job[t].fd, n |-> job[t].n,
            off |-> job[t].off, total |-> total, pc |-> pc]]

(* The call returns its total, or -1; then the task goes on. *)
Return(t, ok) ==
  /\ Advance(t, job[t].total, IF ok THEN "ok" ELSE "failed")
  /\ UNCHANGED <<disk, pos, moved, crossed>>

Finish(t) ==
  /\ job[t].pc \in {"ok", "failed"}
  /\ job' = [job EXCEPT ![t] = NoJob]
  /\ moved' = [moved EXCEPT ![t] = <<>>] /\ crossed' = crossed \ {t}
  /\ UNCHANGED <<disk, table, pos, handle>>

(* What the call has moved, and a chunk of k bytes more. *)
Joined(t, s, k) ==
  IF t \in crossed THEN <<>>
  ELSE [i \in 1..(job[t].total + k) |-> IF i <= job[t].total THEN moved[t][i] ELSE s[i - job[t].total]]

(* pread: some of what is left, nothing at the end of the file, EINTR      *)
(* (nothing changes and the loop goes on), or an error.                    *)
ReadChunk(j, r) == [i \in 1..r |-> disk[table[j.fd]][j.off + j.total + i]]

fread(t) ==
  /\ In(t, "read")
  /\ LET j == job[t]
         f == table[j.fd]
     IN  IF j.total = j.n \/ f = Idle \/ j.off + j.total >= Len(disk[f])
         THEN Return(t, j.total = j.n \/ f # Idle)
         ELSE \/ \E r \in 1..(j.n - j.total) :
                   /\ j.off + j.total + r <= Len(disk[f])
                   /\ Advance(t, j.total + r, "loop")
                   /\ moved' = [moved EXCEPT ![t] = Joined(t, ReadChunk(j, r), r)]
                   /\ UNCHANGED <<disk, pos, crossed>>
              \/ Return(t, FALSE)
  /\ UNCHANGED <<table, handle>>

(* A defect to test against: every chunk starts at the front of the data. *)
WriteFromStart(j, w) == [i \in 1..w |-> Content[j.off + i]]

(* The next w bytes of the buffer. *)
WriteChunk(j, w) == [i \in 1..w |-> Content[j.off + j.total + i]]

(* The w bytes s at position p of a file. *)
Stored(bs, p, s, w) ==
  [i \in 1..(IF Len(bs) > p + w THEN Len(bs) ELSE p + w) |->
     IF i > p /\ i <= p + w THEN s[i - p] ELSE IF i <= Len(bs) THEN bs[i] ELSE 0]

(* write, of some of what is left or an error. *)
fwrite(t) ==
  /\ In(t, "write")
  /\ LET j == job[t]
         f == table[j.fd]
         p == pos[j.fd]
     IN  IF j.total = j.n \/ f = Idle THEN Return(t, j.total = j.n)
         ELSE \/ \E w \in 1..(j.n - j.total) :
                   /\ p + w <= MaxSize
                   /\ disk' = [disk EXCEPT ![f] = Stored(@, p, WriteChunk(j, w), w)]
                   /\ pos' = [pos EXCEPT ![j.fd] = p + w]
                   /\ Advance(t, j.total + w, "loop")
                   /\ Disturb(t, j.fd, f,
                        Joined(t, [i \in 1..w |-> <<f, p + i, WriteChunk(j, w)[i]>>], w))
              \/ Return(t, FALSE)
  /\ UNCHANGED <<table, handle>>

SyncNext ==
  \E t \in Caller :
    \/ fread(t) \/ fwrite(t) \/ Finish(t)
    \/ \E f \in Files :
         \/ fopen(t, f) \/ fclose(t, f) \/ fseek(t, f)
         \/ \E n \in Amounts, off \in Offsets, op \in {"read", "write"} : Begin(t, op, f, n, off)

SyncSpec == SyncInit /\ [][SyncNext]_syncVars
-----------------------------------------------------------------------------
(* A call that returns success has moved its bytes whole, however often    *)
(* the system call was cut short: a write has put the slice of the buffer  *)
(* it was given into its own file, in one piece, and a read has the bytes  *)
(* at its offset, all of them or up to the end of the file.  Only a write, *)
(* a seek or a close by another thread during the call can break this      *)
(* (diskio.c:745 and 788), since the descriptor is read only once.         *)
WriteWhole(j, m) ==
  /\ DOMAIN m = 1..j.n
  /\ \A i \in 1..j.n : m[i] = <<j.file, m[1][2] + i - 1, Content[j.off + i]>>
ReadWhole(j, m) ==
  /\ DOMAIN m = 1..j.total
  /\ \A i \in 1..j.total : m[i] = disk[j.file][j.off + i]
  /\ j.total = j.n \/ j.off + j.total >= Len(disk[j.file])

CallsMoveWhole ==
  \A t \in {u \in Caller \ crossed : job[u].pc = "ok"} :
    /\ job[t].op = "write" => WriteWhole(job[t], moved[t])
    /\ job[t].op = "read" => ReadWhole(job[t], moved[t])
=============================================================================
