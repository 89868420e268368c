------------------------------ MODULE MCSocks5 ------------------------------
EXTENDS Socks5

CONSTANTS c1, c2

RightUser == <<1, 2, 97, 98, 1, 112>>
WrongPassword == <<1, 2, 97, 98, 1, 113>>
LongPassword == <<1, 2, 97, 98, 2, 112, 112>>
Domain == <<5, 1, 0, 3, 1, 104, 0, 80>>
IPv4 == <<5, 1, 0, 1, 10, 0, 0, 1, 0, 80>>
IPv6 == <<5, 1, 0, 4>> \o [i \in 1..16 |-> i] \o <<0, 80>>
Bind == <<5, 2, 0, 1, 10, 0, 0, 1, 0, 80>>

Client(auth, request) == [offers |-> {0, 2}, auth |-> auth, request |-> request]

Start(required, client, other) ==
  [requireAuth |-> required,
   profile |-> [c \in {c1, c2} |-> IF c = c1 THEN client ELSE Client(RightUser, other)]]

\* Clients of every kind, and beside each one that behaves well.
AllStarts ==
  {Start(TRUE, Client(RightUser, IPv4), IPv4), Start(TRUE, Client(WrongPassword, IPv4), Domain),
   Start(TRUE, Client(LongPassword, IPv4), IPv6),
   Start(TRUE, [Client(RightUser, IPv4) EXCEPT !.offers = {0}], IPv4),
   Start(FALSE, Client(RightUser, Bind), IPv4)}
=============================================================================
