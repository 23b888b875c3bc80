--------------------------- MODULE SocketAddress ---------------------------
(***************************************************************************)
(* class SocketAddress (functionality/socket_address.cpp): an ip, a port   *)
(* and a descriptor, any of which may be missing; its order; its string,   *)
(* and the address read back from a string.                                *)
(*                                                                         *)
(* A string is a sequence of characters, as the separators in it matter.   *)
(* Positions count from 1, so that 0 stands for std::string::npos, which   *)
(* the code keeps in an int and uses in sums.                              *)
(***************************************************************************)
EXTENDS Integers, Sequences, FiniteSetsExt, SequencesExt

CONSTANTS
  Names,        (* strings used as ip or port                              *)
  Descriptors,  (* the values of the field descriptor                      *)
  to_string,    (* their decimal notations                                 *)
  code,         (* the characters in the order of char                     *)
  IntRange      (* an int is in -IntRange..IntRange - 1                    *)

FIELD_SEP     == "$"
NO_IP_PORT    == <<>>
NO_DESCRIPTOR == -1

(* char's order is total, and a decimal notation denotes one number. *)
ConstantsOK ==
  /\ Names \subseteq Seq(DOMAIN code)
  /\ \A c, d \in DOMAIN code : code[c] \in Int /\ (code[c] = code[d] => c = d)
  /\ IntRange \in Nat /\ Descriptors \subseteq -IntRange..IntRange - 1
  /\ to_string \in [Descriptors -> Seq(DOMAIN code)]
  /\ \A d, e \in Descriptors : to_string[d] = to_string[e] => d = e
  /\ \A d \in Descriptors : \A i \in 1..Len(to_string[d]) : to_string[d][i] # FIELD_SEP

(* std::string::compare and std::string::find *)
StringLess(s, t) ==
  \E i \in 1..Len(t) :
    /\ i <= Len(s) + 1
    /\ \A j \in 1..i - 1 : s[j] = t[j]
    /\ i <= Len(s) => code[s[i]] < code[t[i]]

Find(s, c) ==
  LET found == {i \in 1..Len(s) : s[i] = c}
  IN  IF found = {} THEN 0 ELSE Min(found)

Free(s, c) == Find(s, c) = 0

After(s, i) == SubSeq(s, i + 1, Len(s))

(* std::stoi reads the longest number in front and throws without one,     *)
(* which a number that is no int stands for.                               *)
Throws == IntRange

stoi(s) ==
  LET read == {d \in Descriptors : IsPrefix(to_string[d], s)}
  IN  IF read = {} THEN Throws
      ELSE CHOOSE d \in read : \A e \in read : Len(to_string[e]) <= Len(to_string[d])

-----------------------------------------------------------------------------

(* initialize_SocketAddress exits on an address without anything, so that  *)
(* NoAddress stands for the exit.                                          *)
initialize_SocketAddress(ip, port, descriptor) ==
  [ip |-> ip, port |-> port, descriptor |-> descriptor]

NoAddress == initialize_SocketAddress(NO_IP_PORT, NO_IP_PORT, NO_DESCRIPTOR)

Addresses == [ip : Names, port : Names, descriptor : Descriptors] \ {NoAddress}

has_ip_port(a)    == a.ip # NO_IP_PORT \/ a.port # NO_IP_PORT
has_descriptor(a) == a.descriptor # NO_DESCRIPTOR

as_string(a) ==
  (a.ip \o <<FIELD_SEP>>) \o ((a.port \o <<FIELD_SEP>>) \o to_string[a.descriptor])

(* SocketAddress(represent_address): a length of -1 means up to the end. *)
from_string(s) ==
  LET separator1 == Find(s, FIELD_SEP)
      separator2 == Find(After(s, separator1), FIELD_SEP) + separator1
  IN  initialize_SocketAddress(
        IF separator1 = 0 THEN s ELSE SubSeq(s, 1, separator1 - 1),
        IF separator2 = separator1 THEN After(s, separator1)
          ELSE SubSeq(s, separator1 + 1, separator2 - 1),
        stoi(After(s, separator2)))

-----------------------------------------------------------------------------
(* operator<: addresses with an ip and port before those without, then     *)
(* those with a descriptor before those without, then by content.          *)

(* The difference of two ints wraps around. *)
Wrap(d) ==
  CASE d >= IntRange  -> d - 2 * IntRange
    [] d < -IntRange  -> d + 2 * IntRange
    [] OTHER          -> d

Before(a, b) ==
  \/ has_ip_port(a) /\ ~has_ip_port(b)
  \/ has_ip_port(a) = has_ip_port(b) /\ has_descriptor(a) /\ ~has_descriptor(b)

SameIndicators(a, b) ==
  has_ip_port(a) = has_ip_port(b) /\ has_descriptor(a) = has_descriptor(b)

(* The ports are compared whether the ips are equal or not. *)
IpOrPortBefore(a, b) ==
  /\ has_ip_port(a)
  /\ StringLess(a.ip, b.ip) \/ StringLess(a.port, b.port)

IpPortBefore(a, b) ==
  /\ has_ip_port(a)
  /\ StringLess(a.ip, b.ip) \/ (a.ip = b.ip /\ StringLess(a.port, b.port))

SameIpPort(a, b) == has_ip_port(a) => a.ip = b.ip /\ a.port = b.port

DescriptorBefore(a, b) ==
  has_descriptor(a) /\ Wrap(a.descriptor - b.descriptor) < 0

Less(a, b) ==
  \/ Before(a, b)
  \/ SameIndicators(a, b) /\ IpPortBefore(a, b)
  \/ SameIndicators(a, b) /\ SameIpPort(a, b) /\ DescriptorBefore(a, b)

-----------------------------------------------------------------------------

(* The order decides between a and b: they are equal, or exactly one of    *)
(* them comes first.  It need not if their difference overflows.           *)
Decided(a, b) ==
  /\ ~(Less(a, b) /\ Less(b, a))
  /\ a = b \/ Less(a, b) \/ Less(b, a)

Close(a, b) == a.descriptor - b.descriptor \in 1 - IntRange..IntRange - 1
=============================================================================
