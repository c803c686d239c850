------------------------------- MODULE Schnorr -------------------------------
(***************************************************************************)
(* Signatures over a group of prime order Order (signature.rs).            *)
(*                                                                         *)
(* A point is its discrete logarithm, 0 the identity, which has no         *)
(* coordinates; P and -P share their x coordinate.  A digest is 32 bytes,  *)
(* read modulo the order.  The hash functions are parameters: digests[c]   *)
(* is the nonce hash under counter c, and challenge[x] the challenge for   *)
(* the coordinate x of R, the key and the message being fixed.             *)
(***************************************************************************)
EXTENDS Codec

CONSTANTS
  Order,     \* the order of Grumpkin, an odd prime
  Digests    \* the values of a 32-byte digest, beyond Order

ASSUME SchnorrAssumption == Order \in Nat /\ Order > 2 /\ Digests \subseteq Nat

Tries     == 2
Scalars   == 0..Order-1
ToScalar(digest) == digest % Order

Identity  == 0
XCoord(p) == IF p <= Order - p THEN p ELSE Order - p
XCoords   == {XCoord(p) : p \in Scalars \ {Identity}}

PublicKey(sk) == sk

\* Mutant: a signature whose s is zero is returned.
AttemptZero(sk, digests, challenge, counter) ==
  LET k == ToScalar(digests[counter])
      e == challenge[XCoord(k)]
  IN IF k = 0 \/ PublicKey(sk) = Identity \/ ToScalar(e) = 0 THEN Err
     ELSE Ok([s |-> (k - ToScalar(e) * sk) % Order, e |-> e])

\* One turn of the loop of sign_bytes: Err where it goes on to the next counter,
\* or fails because the key has no coordinates.
Attempt(sk, digests, challenge, counter) ==
  LET k == ToScalar(digests[counter])
      e == challenge[XCoord(k)]
      s == (k - ToScalar(e) * sk) % Order
  IN IF k = 0 \/ PublicKey(sk) = Identity \/ ToScalar(e) = 0 \/ s = 0 THEN Err
     ELSE Ok([s |-> s, e |-> e])

\* The first counter that gives a signature, if one of the first Tries does.
SignBytes(sk, digests, challenge) ==
  LET good == {c \in 0..Tries-1 : Attempt(sk, digests, challenge, c).ok}
  IN IF good = {} THEN Err
     ELSE Attempt(sk, digests, challenge, CHOOSE c \in good : \A d \in good : c <= d)

VerifyBytes(pk, signature, challenge) ==
  LET r == (ToScalar(signature.s) + ToScalar(signature.e) * pk) % Order
  IN /\ signature.s # 0 /\ signature.e # 0
     /\ r # Identity /\ pk # Identity
     /\ challenge[XCoord(r)] = signature.e
=============================================================================
