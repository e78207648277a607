------------------------------ MODULE ArpTable ------------------------------
(***************************************************************************)
(* The ARP table (pfm_arp.c) after its initialisation.  One thread writes  *)
(* it, the receive loop: it hands ARP replies to pfm_arp_process_reply and *)
(* runs the refresh timers, never both at once.  The workers look an       *)
(* address up at any moment and then read the entry through the pointer    *)
(* they got, without any lock; an entry is a row of arp_table at the       *)
(* position the hash gives its key.                                        *)
(***************************************************************************)
EXTENDS Naturals, SequencesExt

CONSTANTS
  PFM_ARP_TABLE_ENTRIES,   \* rows of the table
  Ips, Macs,               \* what a reply brings
  Workers,
  NoPos,                   \* no position: -ENOENT, or a NULL pointer
  NoIp, NoMac              \* address 0.0.0.0 and 00:00:00:00:00:00

ASSUME EntriesAssumption == PFM_ARP_TABLE_ENTRIES \in Nat \ {0}
ASSUME NoneAssumption ==
  NoPos \notin 1 .. PFM_ARP_TABLE_ENTRIES /\ NoIp \notin Ips /\ NoMac \notin Macs

VARIABLES
  hash,     \* hash_mapper: the position of every address
  free,     \* its free positions, first in, first out
  row,      \* arp_table, a timer that is not stopped included
  rx,       \* where the receive loop is, and on what
  reader,   \* where each worker is in dst_mac_addr_get and pfm_data_req
  told,     \* history: the MAC the last reply gave an address in the table
  asked     \* history: the requests sent for it since

table == <<hash, free, row>>
vars == <<hash, free, row, rx, reader, told, asked>>

Positions == 1 .. PFM_ARP_TABLE_ENTRIES
Row == [dst_ip_addr : Ips \union {NoIp}, mac_addr : Macs \union {NoMac},
        try_count : 0 .. 2, armed : BOOLEAN]
EmptyRow == [dst_ip_addr |-> NoIp, mac_addr |-> NoMac, try_count |-> 0,
             armed |-> FALSE]

RxIdle == [pc |-> "idle", ip |-> NoIp, pos |-> NoPos, mac |-> NoMac]
ReaderIdle == [pc |-> "idle", ip |-> NoIp, pos |-> NoPos, mac |-> NoMac, clean |-> TRUE]

Init ==
  /\ hash = [ip \in Ips |-> NoPos]
  /\ free = [i \in Positions |-> i]
  /\ row = [p \in Positions |-> EmptyRow]
  /\ rx = RxIdle
  /\ reader = [w \in Workers |-> ReaderIdle]
  /\ told = [ip \in Ips |-> {}]
  /\ asked = [ip \in Ips |-> 0]

(* A worker that holds the position the receive loop writes to may see     *)
(* half of the change.                                                     *)
Disturb(p) ==
  reader' = [w \in Workers |->
    IF reader[w].pos = p THEN [reader[w] EXCEPT !.clean = FALSE] ELSE reader[w]]

-----------------------------------------------------------------------------
(* pfm_arp_process_reply: the key is in the hash before the row is filled. *)
ReplyAdd(ip, m) ==
  LET p == IF hash[ip] = NoPos THEN Head(free) ELSE hash[ip]
  IN  /\ rx.pc = "idle"
      /\ hash[ip] # NoPos \/ free # <<>>
      /\ hash' = [hash EXCEPT ![ip] = p]
      /\ free' = IF hash[ip] = NoPos THEN Tail(free) ELSE free
      /\ rx' = [pc |-> "added", ip |-> ip, pos |-> p, mac |-> m]
      /\ told' = [told EXCEPT ![ip] = {m}]
      /\ asked' = [asked EXCEPT ![ip] = 0]
      /\ Disturb(p)
      /\ UNCHANGED row

(* Mutant: the retries of an entry that is renewed are not forgotten.      *)
ReplyFill_KeepsTries ==
  /\ rx.pc = "added"
  /\ row' = [row EXCEPT ![rx.pos].dst_ip_addr = rx.ip, ![rx.pos].mac_addr = rx.mac]
  /\ rx' = [rx EXCEPT !.pc = "filled"]
  /\ Disturb(rx.pos)
  /\ UNCHANGED <<hash, free, told, asked>>

(* Mutant: an entry that is renewed keeps its MAC address.                 *)
ReplyFill_KeepsMac ==
  /\ rx.pc = "added"
  /\ row' = [row EXCEPT ![rx.pos].dst_ip_addr = rx.ip, ![rx.pos].try_count = 0,
                        ![rx.pos].mac_addr = IF @ = NoMac THEN rx.mac ELSE @]
  /\ rx' = [rx EXCEPT !.pc = "filled"]
  /\ Disturb(rx.pos)
  /\ UNCHANGED <<hash, free, told, asked>>

ReplyFill ==
  /\ rx.pc = "added"
  /\ row' = [row EXCEPT ![rx.pos] =
       [dst_ip_addr |-> rx.ip, mac_addr |-> rx.mac, try_count |-> 0, armed |-> @.armed]]
  /\ rx' = [rx EXCEPT !.pc = "filled"]
  /\ Disturb(rx.pos)
  /\ UNCHANGED <<hash, free, told, asked>>

(* Mutant: the timer is only set for a new entry, in ReplyAdd's place.     *)
ReplyArm_Never ==
  /\ rx.pc = "filled"
  /\ rx' = RxIdle
  /\ UNCHANGED <<table, reader, told, asked>>

ReplyArm ==
  /\ rx.pc = "filled"
  /\ row' = [row EXCEPT ![rx.pos].armed = TRUE]
  /\ rx' = RxIdle
  /\ UNCHANGED <<hash, free, reader, told, asked>>

-----------------------------------------------------------------------------
(* refresh_callback, when the timer of a row expires.                      *)
Due(p) == rx.pc = "idle" /\ row[p].armed

(* Mutant: the requests are not counted against a limit.                   *)
Refresh_NoLimit(p) ==
  /\ Due(p)
  /\ asked' = [asked EXCEPT ![row[p].dst_ip_addr] = @ + 1]
  /\ row' = [row EXCEPT ![p].try_count = @ + 1]
  /\ UNCHANGED <<hash, free, rx, reader, told>>

Refresh(p) ==
  /\ Due(p)
  /\ row[p].try_count < 2
  /\ asked' = [asked EXCEPT ![row[p].dst_ip_addr] = @ + 1]
  /\ row' = [row EXCEPT ![p].try_count = @ + 1]
  /\ UNCHANGED <<hash, free, rx, reader, told>>

(* arp_clear_entry: the key, taken from the row, is deleted first.         *)
Expire(p) ==
  LET ip == row[p].dst_ip_addr
  IN  /\ Due(p)
      /\ row[p].try_count >= 2
      /\ hash' = [hash EXCEPT ![ip] = NoPos]
      /\ free' = Append(free, p)
      /\ rx' = [pc |-> "deleted", ip |-> ip, pos |-> p, mac |-> NoMac]
      /\ told' = [told EXCEPT ![ip] = {}]
      /\ Disturb(p)
      /\ UNCHANGED <<row, asked>>

(* Mutant: the timer of a cleared entry goes on.                           *)
Clear_KeepsTimer ==
  /\ rx.pc = "deleted"
  /\ row' = [row EXCEPT ![rx.pos] = [EmptyRow EXCEPT !.armed = TRUE]]
  /\ rx' = RxIdle
  /\ Disturb(rx.pos)
  /\ UNCHANGED <<hash, free, told, asked>>

Clear ==
  /\ rx.pc = "deleted"
  /\ row' = [row EXCEPT ![rx.pos] = EmptyRow]
  /\ rx' = RxIdle
  /\ Disturb(rx.pos)
  /\ UNCHANGED <<hash, free, told, asked>>

-----------------------------------------------------------------------------
(* A worker looks up the address, or the gateway's, and uses the pointer.  *)
Query(w, ip) ==
  /\ reader[w].pc = "idle"
  /\ hash[ip] # NoPos
  /\ reader' = [reader EXCEPT ![w] =
       [pc |-> "found", ip |-> ip, pos |-> hash[ip], mac |-> NoMac,
        clean |-> rx.pos # hash[ip]]]
  /\ UNCHANGED <<table, rx, told, asked>>

CopyMac(w) ==
  /\ reader[w].pc = "found"
  /\ reader' = [reader EXCEPT ![w] =
       [@ EXCEPT !.pc = "read", !.mac = row[reader[w].pos].mac_addr]]
  /\ UNCHANGED <<table, rx, told, asked>>

Send(w) ==
  /\ reader[w].pc = "read"
  /\ reader' = [reader EXCEPT ![w] = ReaderIdle]
  /\ UNCHANGED <<table, rx, told, asked>>

Next ==
  \/ \E ip \in Ips, m \in Macs : ReplyAdd(ip, m)
  \/ ReplyFill \/ ReplyArm \/ Clear
  \/ \E p \in Positions : Refresh(p) \/ Expire(p)
  \/ \E w \in Workers : (\E ip \in Ips : Query(w, ip)) \/ CopyMac(w) \/ Send(w)

(***************************************************************************)
(* The receive loop never stops, so it finishes what it has begun; and it  *)
(* calls rte_timer_manage again and again between two bursts of packets,   *)
(* which runs every timer that is due: replies cannot starve a timer.      *)
(***************************************************************************)
Fairness ==
  /\ WF_vars(ReplyFill \/ ReplyArm \/ Clear)
  /\ \A p \in Positions : SF_vars(Refresh(p) \/ Expire(p))

Spec == Init /\ [][Next]_vars /\ Fairness

-----------------------------------------------------------------------------

TypeOK ==
  /\ hash \in [Ips -> Positions \union {NoPos}]
  /\ free \in Seq(Positions)
  /\ row \in [Positions -> Row]
  /\ rx \in [pc : {"idle", "added", "filled", "deleted"}, ip : Ips \union {NoIp},
             pos : Positions \union {NoPos}, mac : Macs \union {NoMac}]
  /\ reader \in [Workers -> [pc : {"idle", "found", "read"}, ip : Ips \union {NoIp},
                  pos : Positions \union {NoPos}, mac : Macs \union {NoMac}, clean : BOOLEAN]]
  /\ told \in [Ips -> SUBSET Macs]
  /\ asked \in [Ips -> 0 .. 2]

(* When the receive loop is between two calls, an address in the hash has  *)
(* a row of its own with the MAC address it last announced and a timer     *)
(* that runs, and every other row is free, blank and without a timer: the  *)
(* positions the hash reuses never bring an old entry or timer back.       *)
TableSound ==
  rx.pc = "idle" =>
    /\ \A ip \in Ips : hash[ip] # NoPos =>
         LET e == row[hash[ip]]
         IN  /\ e.dst_ip_addr = ip /\ e.armed
             /\ \A m \in told[ip] : e.mac_addr = m
    /\ \A ip, jp \in Ips : hash[ip] = hash[jp] /\ hash[ip] # NoPos => ip = jp
    /\ \A p \in Positions :
         (\A ip \in Ips : hash[ip] # p) <=> row[p] = EmptyRow /\ p \in ToSet(free)

(* A worker sends to the MAC address that the address it looked up last    *)
(* announced, unless the receive loop was at work on that very row.        *)
CleanReads ==
  \A w \in Workers : reader[w].pc = "read" /\ reader[w].clean =>
    reader[w].mac \in told[reader[w].ip]

(* An entry is only given up after two requests that were not answered.    *)
AskedFirst ==
  [][\A ip \in Ips : hash[ip] # NoPos /\ hash'[ip] = NoPos => asked[ip] = 2]_vars

(* "Entries are cleared after timer associated with each expires"          *)
(* (pfm_arp.h:31): an address that falls silent leaves the table for good. *)
SilentForgotten ==
  \A ip \in Ips :
    <>[][\A m \in Macs : ~ReplyAdd(ip, m)]_vars => <>[](hash[ip] = NoPos)
=============================================================================
