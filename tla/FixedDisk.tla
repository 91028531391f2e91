----------------------------- MODULE FixedDisk -----------------------------
(***************************************************************************)
(* One fixed disk command (VirtualFixedDisk.cpp): a volume is a sequence   *)
(* of sectors, numbered from 1 as the I/O block numbers them, and a sector *)
(* a sequence of bytes.  The buffer a command moves from or to is a        *)
(* sequence of sectors; its translation and the range check of its extents *)
(* are the caller's.                                                       *)
(***************************************************************************)
EXTENDS Integers, Sequences, FiniteSetsExt

(* What a command leaves: its completion, the work sector, the volume, the *)
(* buffer, and for a scan the place of the key it found.                   *)
Outcome(code, work, volume, buffer, place) ==
    [code |-> code, work |-> work, volume |-> volume, buffer |-> buffer, place |-> place]

LastOf(r) == r.sector + r.count - 1

(* A fill writes one byte everywhere, a wrap one sector of the buffer, and *)
(* any other write the buffer.                                             *)
Source(r, bytes) ==
    CASE r.modifier = "fill" -> [i \in 1 .. r.count |-> [b \in 1 .. bytes |-> r.fill]]
      [] r.modifier = "wrap" -> [i \in 1 .. r.count |-> r.buffer[1]]
      [] OTHER -> SubSeq(r.buffer, 1, r.count)

Written(volume, r) ==
    [s \in DOMAIN volume |->
        IF s \in r.sector .. LastOf(r)
        THEN Source(r, Len(volume[s]))[s - r.sector + 1] ELSE volume[s]]

(* The sign of the comparison of a key of a sector with the argument.      *)
Compare(key, argument) ==
    LET unlike == {i \in DOMAIN argument : key[i] # argument[i]}
    IN  IF unlike = {} THEN 0 ELSE key[Min(unlike)] - argument[Min(unlike)]

Hit(relation, sign) ==
    CASE relation = "equal" -> sign = 0
      [] relation = "low or equal" -> sign <= 0
      [] relation = "high or equal" -> sign >= 0

(* Where the keys of a sector begin, counted from 0.                       *)
KeyPlaces(r, bytes) ==
    {p \in r.first .. r.last : /\ (p - r.first) % (Len(r.argument) + r.gap) = 0
                               /\ p + Len(r.argument) <= bytes}

KeyAt(sector, p, n) == SubSeq(sector, p + 1, p + n)

(* The sectors in order, and in each the keys in order: the first hit ends *)
(* the scan with its sector in the buffer, the place of the key's last     *)
(* byte, and a code that tells an equal key from another; none ends it     *)
(* with code 2.                                                            *)
Scan(volume, r) ==
    LET n == Len(r.argument)
        Hits(s) == {p \in KeyPlaces(r, Len(volume[s])) :
                      Hit(r.modifier, Compare(KeyAt(volume[s], p, n), r.argument))}
        found == {s \in r.sector .. LastOf(r) : Hits(s) # {}}
    IN  IF found = {} THEN Outcome(2, LastOf(r), volume, r.buffer, 0)
        ELSE LET s == Min(found)
                 p == Min(Hits(s))
             IN  Outcome(IF Compare(KeyAt(volume[s], p, n), r.argument) = 0 THEN 4 ELSE 0,
                         s, volume, <<volume[s]>>, p + n - 1)

(* A relation that is not implemented, or a key that no sector can hold.   *)
Unusable(volume, r) ==
    \/ r.modifier \notin {"equal", "low or equal", "high or equal"}
    \/ r.first + Len(r.argument) > Len(volume[r.sector])

(* The command: the answers that move nothing, the range checks, then the  *)
(* operation.  A read-only volume refuses a write; an overlay takes it.    *)
Execute(volume, writable, r) ==
    LET Refused == Outcome(4, r.sector, volume, r.buffer, 0)
        Beyond == r.sector \notin DOMAIN volume \/ LastOf(r) > Len(volume)
    IN  IF r.command = "complete" \/ (r.command = "read" /\ r.sector = 0)
        THEN Outcome(0, r.sector, volume, r.buffer, 0)
        ELSE IF r.command \notin {"read", "write", "scan"} \/ Beyond
                \/ (r.command = "write" /\ ~writable)
                \/ (r.command = "scan" /\ Unusable(volume, r))
        THEN Refused
        ELSE CASE r.command = "read" ->
                    Outcome(0, LastOf(r), volume, SubSeq(volume, r.sector, LastOf(r)), 0)
               [] r.command = "write" -> Outcome(0, LastOf(r), Written(volume, r), r.buffer, 0)
               [] r.command = "scan" -> Scan(volume, r)

-----------------------------------------------------------------------------
(* What commands are asked of: a volume of sectors of that many bytes.     *)
Bytes == 0 .. 255

IsVolume(volume, bytes) ==
    volume \in Seq(Seq(Bytes)) /\ \A s \in DOMAIN volume : Len(volume[s]) = bytes

Requests ==
    [command : STRING, modifier : STRING, sector : Nat, count : Nat, fill : Bytes,
     buffer : Seq(Seq(Bytes)), argument : Seq(Bytes), first : Nat, last : Nat, gap : Nat]

(* A write whose buffer holds what is to be written.                       *)
IsWrite(r) ==
    /\ r \in Requests
    /\ r.command = "write"
    /\ r.modifier = "wrap" => Len(r.buffer) >= 1
    /\ r.modifier \notin {"fill", "wrap"} => Len(r.buffer) >= r.count

(* A key as a number, its first byte the most significant.                 *)
Number(key) ==
    LET upTo[i \in 0 .. Len(key)] == IF i = 0 THEN 0 ELSE 256 * upTo[i - 1] + key[i]
    IN  upTo[Len(key)]

(* A search of sectors of the volume whose keys ascend.                    *)
IsSearch(volume, bytes, r) ==
    /\ r \in Requests
    /\ r.command = "scan" /\ r.modifier = "high or equal"
    /\ Len(r.argument) >= 1 /\ r.first + Len(r.argument) <= bytes
    /\ r.sector \in DOMAIN volume /\ LastOf(r) <= Len(volume)
    /\ \A s, t \in r.sector .. LastOf(r), p, q \in KeyPlaces(r, bytes) :
          s < t \/ (s = t /\ p <= q) =>
              Number(KeyAt(volume[s], p, Len(r.argument)))
                  <= Number(KeyAt(volume[t], q, Len(r.argument)))

(* On a volume whose keys ascend, a scan for "high or equal" stops at the  *)
(* least key not below the argument, tells an equal one by its code, and   *)
(* reports the number of its sector and the place of its last byte: an     *)
(* index search, whatever the boundaries between sectors                   *)
(* (VirtualFixedDisk.cpp:189-224).                                         *)
FindsLeast(volume, r) ==
    LET n == Len(r.argument)
        keys == {KeyAt(volume[s], p, n) : s \in r.sector .. LastOf(r),
                                          p \in {p \in 0 .. Len(volume[1]) - n :
                                                   /\ p >= r.first /\ p <= r.last
                                                   /\ (p - r.first) % (n + r.gap) = 0}}
        high == {m \in {Number(k) : k \in keys} : m >= Number(r.argument)}
        out == Execute(volume, FALSE, r)
    IN  IF high = {} THEN out.code = 2 /\ out.work = LastOf(r)
        ELSE /\ out.buffer = <<volume[out.work]>>
             /\ Number(KeyAt(out.buffer[1], out.place - n + 1, n)) = Min(high)
             /\ out.code = IF Number(r.argument) \in high THEN 4 ELSE 0

(* Nothing outside the sectors of a completed write changes, and what was  *)
(* written is what a read of the same sectors returns.                     *)
WritesExactly(volume, r) ==
    \A writable \in BOOLEAN :
        LET out == Execute(volume, writable, r)
        IN  /\ \A s \in DOMAIN volume :
                  out.volume[s] # volume[s] =>
                      out.code = 0 /\ writable /\ s \in r.sector .. LastOf(r)
            /\ out.code = 0 =>
                  Execute(out.volume, FALSE, [r EXCEPT !.command = "read"]).buffer
                      = Source(r, Len(volume[1]))
=============================================================================
