----------------------------- MODULE RsaDebugger -----------------------------
(***************************************************************************)
(* The debugger prompt of rsa-debugger (challenge/rsa.go): one process per *)
(* connection, which keeps an RSA key that is entered piece by piece, a    *)
(* message that is being held and the plaintext it ought to decrypt to.    *)
(* Every field is a big.Int and -1 stands for "unset".                     *)
(*                                                                         *)
(* The key is the delicate part.  A setter first unsets what depends on    *)
(* the old value and only then parses and tests the new one, so that it    *)
(* may give up half-way; what is left behind must still be a key that the  *)
(* other commands can use.                                                 *)
(*                                                                         *)
(* Numbers are kept exact, on small instances.  The GCD, ModInverse, Exp   *)
(* and ProbablyPrime of math/big are modelled by what they compute in      *)
(* Go 1.13, the version that built the binary; ProbablyPrime is exact.     *)
(***************************************************************************)
EXTENDS Integers

CONSTANTS
    Numbers,   \* the integers that a user types
    Messages,  \* the primes that cryptor.Prime() finds for holdmsg
    BaseTarg,  \* the plaintext of the debugging commands, as a number
    Offsets    \* the random numbers added to BaseTarg

ASSUME NumbersAssumption == Numbers \subseteq Int
ASSUME MessagesAssumption == Messages \subseteq Nat \ {0}
ASSUME TargetAssumption == BaseTarg \in Nat \ {0} /\ Offsets \subseteq Nat

VARIABLES
    key,      \* CurKey: the fields p, q, n, e and d
    CurMsg,   \* the held message
    TargMsg,  \* the plaintext that the held message should decrypt to
    source,   \* history: the message that TargMsg was derived for
    answer,   \* what attack() printed, "none" before it was called
    running   \* whether the prompt still reads commands

vars == <<key, CurMsg, TargMsg, source, answer, running>>

Unset == -1

-----------------------------------------------------------------------------
(***************************************************************************)
(* math/big.                                                               *)
(***************************************************************************)

Divides(k, x) == x % k = 0

IsPrime(x) == x > 1 /\ \A k \in 2..(x - 1) : ~Divides(k, x)

(* GCD(a, b) is 0 unless both are positive (up to Go 1.13).                *)
GCD(a, b) ==
    IF a <= 0 \/ b <= 0
    THEN 0
    ELSE CHOOSE g \in 1..a : /\ Divides(g, a) /\ Divides(g, b)
                             /\ \A k \in (g + 1)..a :
                                    ~(Divides(k, a) /\ Divides(k, b))

Inverses(x, m) == {y \in 1..(m - 1) : (x * y) % m = 1}

(* d.ModInverse(x, m): without an inverse it returns nil, which set_e()    *)
(* does not look at, and leaves d as new(big.Int) made it: zero.           *)
ModInverse(x, m) ==
    IF Inverses(x, m) # {} THEN CHOOSE y \in Inverses(x, m) : TRUE ELSE 0

Exp(b, x, m) ==
    LET power[k \in 0..x] == IF k = 0 THEN 1 % m ELSE (power[k - 1] * b) % m
    IN  power[x]

Factorial(n) ==
    LET product[k \in 0..n] == IF k = 0 THEN 1 ELSE product[k - 1] * k
    IN  product[n]

(* The search ends: one of n .. n! + 1 is a prime.                         *)
next_prime(n) ==
    CHOOSE pp \in n..(Factorial(n) + 1) :
        /\ IsPrime(pp)
        /\ \A k \in n..(pp - 1) : ~IsPrime(k)

-----------------------------------------------------------------------------
NoKey == [p |-> Unset, q |-> Unset, n |-> Unset, e |-> Unset, d |-> Unset]

(* main() exits at once when flag.txt cannot be read.                      *)
Init ==
    /\ key = NoKey
    /\ CurMsg = Unset /\ TargMsg = Unset /\ source = Unset
    /\ answer = "none"
    /\ running \in BOOLEAN

KeepMsg == UNCHANGED <<CurMsg, TargMsg, source>>

(* A key command is read at the prompt and touches the key only.           *)
KeyCommand == running /\ KeepMsg /\ UNCHANGED <<answer, running>>

-----------------------------------------------------------------------------
(***************************************************************************)
(* setp, setq and sete.  The argument is a number or cannot be parsed; a   *)
(* wrong number of arguments changes nothing (see Inspect).                *)
(***************************************************************************)

WithoutE(k) == [k EXCEPT !.e = Unset, !.d = Unset]
WithoutQ(k) == [WithoutE(k) EXCEPT !.q = Unset, !.n = Unset]

ClearedByP_KeepsN ==
    IF key.q # Unset THEN [WithoutE(key) EXCEPT !.q = Unset] ELSE key

(* What set_p() unsets before it looks at its argument.                    *)
ClearedByP == IF key.q # Unset THEN WithoutQ(key) ELSE key

AcceptsP_AnyOdd(v) == v = 2 \/ (v > 1 /\ v % 2 = 1)

AcceptsP(v) == IsPrime(v)

SetP(v) ==
    /\ KeyCommand
    /\ key' = IF AcceptsP(v) THEN [ClearedByP EXCEPT !.p = v] ELSE ClearedByP

SetPUnparsed == KeyCommand /\ key' = ClearedByP

(* What set_q() unsets; n keeps the value that goes with the old q.        *)
ClearedByQ == IF key.q # Unset THEN WithoutE(key) ELSE key

AcceptsQ(v) == IsPrime(v) /\ GCD(v, key.p) = 1

SetQ(v) ==
    /\ KeyCommand
    /\ key.p # Unset
    /\ key' = IF AcceptsQ(v)
              THEN [ClearedByQ EXCEPT !.q = v, !.n = key.p * v]
              ELSE ClearedByQ

SetQUnparsed == KeyCommand /\ key.p # Unset /\ key' = ClearedByQ

ClearedByE == IF key.e # Unset THEN WithoutE(key) ELSE key

Totient == (key.p - 1) * (key.q - 1)

AcceptsE_OnlyP(v) == GCD(v, key.p - 1) = 1 /\ v < Totient

AcceptsE(v) ==
    /\ GCD(v, key.p - 1) = 1
    /\ GCD(v, key.q - 1) = 1
    /\ v < Totient

SetE(v) ==
    /\ KeyCommand
    /\ key.p # Unset /\ key.q # Unset
    /\ key' = IF AcceptsE(v)
              THEN [ClearedByE EXCEPT !.e = v, !.d = ModInverse(v, Totient)]
              ELSE ClearedByE

SetEUnparsed ==
    /\ KeyCommand
    /\ key.p # Unset /\ key.q # Unset
    /\ key' = ClearedByE

ResetKey == KeyCommand /\ key' = NoKey

-----------------------------------------------------------------------------
(***************************************************************************)
(* holdmsg first releases the message it holds.  The random source may     *)
(* then fail before a message is found, or after that and before a target  *)
(* is derived.                                                             *)
(***************************************************************************)

Hold(m, t) ==
    /\ running
    /\ CurMsg' = m
    /\ TargMsg' = t
    /\ source' = IF t = Unset THEN Unset ELSE m
    /\ UNCHANGED <<key, answer, running>>

HoldFails == Hold(Unset, Unset)

HoldWithoutTarget_KeepsTarget(m) ==
    /\ running
    /\ CurMsg' = m
    /\ UNCHANGED <<key, TargMsg, source, answer, running>>

HoldWithoutTarget(m) == Hold(m, Unset)

HoldWithTarget(m, r) == Hold(m, next_prime(BaseTarg + r))

-----------------------------------------------------------------------------
(***************************************************************************)
(* attack() sends key and message; whatever comes of it, main() exits.     *)
(***************************************************************************)

decrypt_msg == Exp(CurMsg, key.d, key.n)

Response ==
    IF key.d = Unset THEN "key rejected"
    ELSE IF CurMsg = Unset THEN "no message"
    ELSE IF TargMsg # decrypt_msg THEN "no response"
    ELSE "flag"

Attack ==
    /\ running
    /\ answer' = Response
    /\ running' = FALSE
    /\ UNCHANGED key /\ KeepMsg

(* The commands that only print, testdecrypt among them, those refused for *)
(* want of p or q or for the number of their arguments, empty lines and    *)
(* unknown commands.                                                       *)
Inspect == running /\ UNCHANGED vars

(* exit, quit, the end of the input, or the five seconds of limitTime().   *)
Quit ==
    /\ running
    /\ running' = FALSE
    /\ UNCHANGED <<key, answer>> /\ KeepMsg

Next ==
    \/ \E v \in Numbers : SetP(v) \/ SetQ(v) \/ SetE(v)
    \/ SetPUnparsed \/ SetQUnparsed \/ SetEUnparsed
    \/ ResetKey
    \/ HoldFails
    \/ \E m \in Messages : HoldWithoutTarget(m)
    \/ \E m \in Messages, r \in Offsets : HoldWithTarget(m, r)
    \/ Attack
    \/ Inspect
    \/ Quit

Spec == Init /\ [][Next]_vars

-----------------------------------------------------------------------------
(* The type invariant: a set field holds a number of the kind its setter   *)
(* tests for (setp and setq take primes only).                             *)
TypeOK ==
    /\ key \in [p : Int, q : Int, n : Int, e : Int, d : Int]
    /\ key.p = Unset \/ IsPrime(key.p)
    /\ key.q = Unset \/ IsPrime(key.q)
    /\ CurMsg \in Int /\ TargMsg \in Int /\ source \in Int
    /\ answer \in {"none", "key rejected", "no message", "no response", "flag"}
    /\ running \in BOOLEAN

(* Every setter of rsa.go may give up after it has unset what depends on   *)
(* the old value.  Whatever sequence of setters succeeded and failed, the  *)
(* five fields still belong together: q is never set without p, n is the   *)
(* product of the p and the q that are set, and e and d are set together   *)
(* and only on top of a q.                                                 *)
KeyConsistent ==
    /\ key.p = Unset => key.q = Unset
    /\ key.q = Unset => key.n = Unset /\ key.e = Unset
    /\ key.q # Unset => key.n = key.p * key.q
    /\ key.e = Unset <=> key.d = Unset

(* Whenever d is set, so that testdecrypt and attack go on to use it, the  *)
(* key is a working RSA key for the n that is set: encryption with e undoes *)
(* decryption with d for every residue.  set_e() tests e against p - 1 and *)
(* q - 1 separately and ignores what ModInverse() returns, and the values  *)
(* it tested against may be replaced later.                                *)
KeyPairWorks ==
    key.d # Unset =>
        \A m \in 0..(key.n - 1) : Exp(Exp(m, key.d, key.n), key.e, key.n) = m

(* attack() prints the flag only if the target was derived for the very    *)
(* message that is held, by a holdmsg that did not fail half-way, and the  *)
(* uploaded public exponent turns that target back into the message.       *)
FlagEarned ==
    answer = "flag" =>
        /\ source = CurMsg /\ CurMsg # Unset
        /\ IsPrime(TargMsg)
        /\ Exp(TargMsg, key.e, key.n) = CurMsg % key.n
=============================================================================
