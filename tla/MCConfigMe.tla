----------------------------- MODULE MCConfigMe -----------------------------
(* Two plain keys and a key "note:x" that collides with one of them; an    *)
(* ordinary text and two that look encrypted, one of which is a copy of    *)
(* the ciphertext of the secret.                                           *)
EXTENDS ConfigMe

CONSTANTS note, note_x, hello, hexed, badhex, secret, rest

MCKeyHead == [k \in {note_x} |-> note]
MCKeyRest == [k \in {note_x} |-> rest]
MCDecrypted == [t \in {hexed} |-> secret]
=============================================================================
