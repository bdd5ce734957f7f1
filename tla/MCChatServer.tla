---------------------------- MODULE MCChatServer ----------------------------
(* Clients, nicknames and what may be said, for TLC.                         *)
EXTENDS ChatServerViews

CONSTANTS c1, c2, c3, c4, c5, ann, bob, cal, dan, eve

Public(by) == ToNetwork(Message("public_message", by, "", << "hello" >>))

Private(by, to) == ToNetwork(Message("private_message", by, to, << "hello" >>))

Silent == [c \in Conn |-> {}]

OwnNick == (c1 :> ann) @@ (c2 :> bob) @@ (c3 :> cal) @@ (c4 :> dan) @@ (c5 :> eve)
OwnNicks == [c \in Conn |-> OwnNick[c]]

\* Each connection is its own nickname, so that those whose nickname has no
\* whitespace are interchangeable, and so are the others.
OwnName == [c \in Conn |-> c]
Interchangeable == Permutations(Conn \ Spaced) \cup Permutations(Spaced)

\* c3 asks for the nickname of c1.
SharedNicks == [c \in Conn |-> IF c = c3 THEN ann ELSE OwnNick[c]]

\* bob writes to ann, whoever has that nickname, to himself, and to ann under
\* another name.
Letters == {Private(bob, ann), Private(bob, bob), Private(eve, ann)}
Correspondence == [c \in Conn |-> IF c = c2 THEN Letters ELSE {}]
OneLetter == [c \in Conn |-> IF c = c2 THEN 1 ELSE 0]

\* bob says two things in public.
Talk == [c \in Conn |-> IF c = c2 THEN {Public(bob)} ELSE {}]
TwoLines == [c \in Conn |-> IF c = c2 THEN 2 ELSE 0]

\* The two who want to be ann.
Twins == Permutations({c1, c3})

NoLines == [c \in Conn |-> 0]
=============================================================================
