------------------------------ MODULE Validation ------------------------------
(***************************************************************************)
(* What is asked of the values of a site and of a device, twice: by the    *)
(* form validators of src/src/web.rs, which trim and store, and by those   *)
(* of src/src/providers/yamaha.rs, which read the stored row again before  *)
(* a session and trim nothing but the two addresses.                       *)
(*                                                                         *)
(* A text is abstracted to its length in bytes, the classes of characters  *)
(* in it, and whether white space surrounds it.                            *)
(***************************************************************************)
EXTENDS Integers

\* "word" is ASCII alphanumerics and . _ -, "separator" is ; | & ` and $,
\* "newline" is \r and \n, "space" is all other white space, "control" is the
\* remaining control characters, NUL included.
Classes == {"word", "slash", "colon", "separator", "space", "newline", "control", "other"}

Texts == [padded : BOOLEAN, length : Nat, has : SUBSET Classes]

Macs == [written : {"compact", "separated", "malformed"},
         octets  : {"unicast", "multicast", "zero"}]

Ips == {"none", "unicast", "multicast", "unspecified", "malformed"}

Forms == [host : Texts, user : Texts, interface : Texts, mac : Macs, ip : Ips]

Trim(t) == [t EXCEPT !.padded = FALSE]

Fits(t, most) == t.length + (IF t.padded THEN 1 ELSE 0) \in 1 .. most

CharsOf(t) == t.has \cup (IF t.padded THEN {"space"} ELSE {})

Blank == {"space", "newline"}

\* Both validators of a device's addresses are these: web.rs calls yamaha.rs.
GoodMac(m) == m.written # "malformed" /\ m.octets = "unicast"
NormalMac(m) == [m EXCEPT !.written = "separated"]
GoodIp(ip) == ip = "unicast"

-------------------------------------------------------------------------------
(* web.rs: what the forms accept, and what they store.                     *)

FormHost(t) ==
    /\ Fits(Trim(t), 253)
    /\ CharsOf(Trim(t)) \cap (Blank \cup {"control", "separator"}) = {}

FormUser(t) ==
    /\ Fits(Trim(t), 64)
    /\ CharsOf(Trim(t)) \cap (Blank \cup {"control", "colon"}) = {}

FormInterface(t) ==
    /\ Fits(Trim(t), 32)
    /\ CharsOf(Trim(t)) \subseteq {"word", "slash"}

FormAccepts(f) ==
    /\ FormHost(f.host) /\ FormUser(f.user) /\ FormInterface(f.interface)
    /\ GoodMac(f.mac)
    /\ f.ip = "none" \/ GoodIp(f.ip)

StoredAsTyped(f) == [f EXCEPT !.mac = NormalMac(@)]

Stored(f) ==
    [f EXCEPT !.host = Trim(@), !.user = Trim(@), !.interface = Trim(@),
              !.mac = NormalMac(@)]

-------------------------------------------------------------------------------
(* yamaha.rs: what the provider accepts of a stored row.                   *)

ProviderHost(t) ==
    /\ Fits(t, 253)
    /\ CharsOf(t) \cap (Blank \cup {"control", "separator"}) = {}

ProviderUser(t) ==
    /\ Fits(t, 64)
    /\ CharsOf(t) \cap (Blank \cup {"control", "colon"}) = {}

ProviderInterface(t) == Fits(t, 32) /\ CharsOf(t) \subseteq {"word", "slash"}

IsSafeCommand(t) == Fits(t, 256) /\ CharsOf(t) \cap {"newline", "separator"} = {}

\* wol send -i 1 -c 3 {interface} {mac} [{ip} udp 9]; an address is 15 at most.
WolCommand(s) ==
    [padded |-> FALSE,
     length |-> 37 + s.interface.length + (IF s.ip = "none" THEN 0 ELSE 22),
     has    |-> s.interface.has \cup {"word", "space", "colon"}]

\* build_wol_command
BuildsWol(s) ==
    /\ ProviderInterface(s.interface)
    /\ GoodMac(s.mac)
    /\ s.ip = "none" \/ GoodIp(s.ip)
    /\ IsSafeCommand(WolCommand(s))
================================================================================
