-------------------------- MODULE NetworkWhitelist --------------------------
(***************************************************************************)
(* NetworkWhitelistService: the table of CIDR ranges, and whether an       *)
(* address is in one of the enabled ones.  Addresses have Width bits, not  *)
(* 32, and an update or toggle writes a row it read before.                *)
(***************************************************************************)
EXTENDS Directory

CONSTANTS
  Entry,       \* ids, a uuid being used once
  Width,       \* bits of an address
  OtherFamily  \* an address that is not dotted, such as one of IPv6

ASSUME WhitelistAssumption == Width \in Nat /\ OtherFamily \notin Nat

VARIABLES
  entries,     \* each id: [net, bits, enabled], Absent or Gone
  changes      \* what each request will write

whitelistVars == <<entries, changes>>

\* 2 ** n.
Pow2[n \in Nat] == IF n = 0 THEN 1 ELSE 2 * Pow2[n - 1]

Address == 0 .. Pow2[Width] - 1
\* The DTO's pattern takes two digits after the slash, more than there are bits,
\* and octets above 255: these carry into the octet before, and >>> 0 cuts the
\* sum to an Address.
CidrRange == [net : Address, bits : 0 .. Width + 1]

WhitelistInit ==
  /\ entries = [e \in Entry |-> Absent]
  /\ changes = [r \in Request |-> NoRequest]

Listed(e) == entries[e] \notin {Absent, Gone}

WhitelistCreate(e, range, enabled) ==
  /\ entries[e] = Absent
  /\ entries' = [entries EXCEPT ![e] = [net |-> range.net, bits |-> range.bits, enabled |-> enabled]]
  /\ UNCHANGED changes

\* update, remove and toggleEnabled find the row and then write it by its id
\* (P2025 when it is gone); toggleEnabled writes the opposite of what it read.
WhitelistFind(r, e, op) ==
  /\ changes[r] = NoRequest /\ Listed(e)
  /\ changes' = [changes EXCEPT ![r] = [op |-> op, entry |-> e, enabled |-> ~entries[e].enabled]]
  /\ UNCHANGED entries
WhitelistWrite(r, op, row) ==
  LET e == changes[r].entry
  IN /\ changes[r] # NoRequest /\ changes[r].op = op
     /\ entries' = IF Listed(e) THEN [entries EXCEPT ![e] = row] ELSE entries
     /\ changes' = [changes EXCEPT ![r] = NoRequest]
\* What the request leaves out stays: range and enabled are then the row's own.
WhitelistUpdate(r, range, enabled) ==
  WhitelistWrite(r, "update", [net |-> range.net, bits |-> range.bits, enabled |-> enabled])
WhitelistToggle(r) ==
  WhitelistWrite(r, "toggle", [entries[changes[r].entry] EXCEPT !.enabled = changes[r].enabled])
WhitelistRemove(r) == WhitelistWrite(r, "remove", Gone)

WhitelistNext ==
  \/ \E e \in Entry, range \in CidrRange, enabled \in BOOLEAN : WhitelistCreate(e, range, enabled)
  \/ \E r \in Request :
       \/ \E e \in Entry, op \in {"update", "toggle", "remove"} : WhitelistFind(r, e, op)
       \/ \E range \in CidrRange, enabled \in BOOLEAN : WhitelistUpdate(r, range, enabled)
       \/ WhitelistToggle(r) \/ WhitelistRemove(r)

WhitelistSpec == WhitelistInit /\ [][WhitelistNext]_whitelistVars

-----------------------------------------------------------------------------
Enabled == {e \in Entry : Listed(e) /\ entries[e].enabled}

\* parseInt of what is no dotted address is NaN, and NaN >>> 0 is 0.
IpToLong(ip) == IF ip = OtherFamily THEN 0 ELSE ip

\* ~(2 ** (Width - bits) - 1) in Width bits; past Width the power is a fraction,
\* and the operator ~ cuts it to 0.
\* Mutant: one bit too many.
Mask_Shifted(bits) ==
  IF bits = 0 THEN 0
  ELSE Pow2[Width] - 1 - (IF bits >= Width THEN 0 ELSE Pow2[Width - bits - 1] - 1)
Mask(bits) ==
  IF bits = 0 THEN 0
  ELSE Pow2[Width] - 1 - (IF bits >= Width THEN 0 ELSE Pow2[Width - bits] - 1)

\* (x & mask) === (y & mask), bit by bit.
Bit(x, i) == (x \div Pow2[i]) % 2
SameUnder(mask, x, y) ==
  \A i \in 0 .. Width - 1 : Bit(x, i) * Bit(mask, i) = Bit(y, i) * Bit(mask, i)

IsIpInCidr(ip, entry) == SameUnder(Mask(entry.bits), IpToLong(ip), entry.net)
IsIpAllowed(ip) ==
  Enabled = {} \/ \E e \in Enabled : IsIpInCidr(ip, entries[e])

\* The variables have their types (all of the module).
WhitelistTypeOK ==
  LET Row == [net : Address, bits : 0 .. Width + 1, enabled : BOOLEAN]
  IN /\ entries \in [Entry -> Row \union {Absent, Gone}]
     /\ changes \in [Request -> [op : {"update", "remove", "toggle"}, entry : Entry, enabled : BOOLEAN]
                                  \union {NoRequest}]

\* An address is let in when no range is enabled, and otherwise when it agrees
\* with some enabled range in as many leading bits as that names, all of them
\* when it names more than there are (network-whitelist.service.ts:190-215).
AllowedByPrefix ==
  \A ip \in Address :
    IsIpAllowed(ip) <=>
      \/ \A e \in Entry : Listed(e) => ~entries[e].enabled
      \/ \E e \in Entry :
           /\ Listed(e) /\ entries[e].enabled
           /\ LET low == IF entries[e].bits > Width THEN 1 ELSE Pow2[Width - entries[e].bits]
              IN ip \div low = entries[e].net \div low
=============================================================================
