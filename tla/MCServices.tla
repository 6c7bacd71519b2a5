----------------------------- MODULE MCServices ----------------------------
(***************************************************************************)
(* Services for TLC: a log of four lines, two addresses of IPv4 and one of  *)
(* IPv6, two clients of the hub.                                           *)
(***************************************************************************)
EXTENDS Services

CONSTANTS a, b, x,            \* addresses
          c1, c2              \* clients of the hub

MCLines == <<"event", "odd", "huge", "event">>
MCInternal == {b}
=============================================================================
