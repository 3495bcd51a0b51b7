-------------------------------- MODULE Gate --------------------------------
(***************************************************************************)
(* Who may ask the daemon for what: the stamp that a transport puts on a   *)
(* request, what each transport answers about its peers, and the gates, in *)
(* their order.  The socket routes have gates of their own.                *)
(***************************************************************************)
CONSTANTS
  Peers,        \* identities the built-in transport can prove
  NoPeer,       \* what the others prove
  NoDevice      \* no device; as a token: the request carries none

(* UNAUTHENTICATED_PATHS, PEER_ONLY_PATHS and TOKEN_ONLY_PATHS.            *)
UnauthenticatedPaths == {"health", "claim"}
PeerOnlyPaths        == {"pair"}
TokenOnlyPaths       == {"adopt"}

(* A request with no stamp comes from nowhere.  Of an address on the       *)
(* tailnet's interface the tailnet knows whether it is a member.           *)
Stamps ==
  [over : {"nowhere", "loopback"}, id : {NoPeer}, member : {FALSE}]
    \cup [over : {"tailscale"}, id : {NoPeer}, member : BOOLEAN]
    \cup [over : {"iroh"}, id : Peers, member : {FALSE}]

GrantsLocalBypass(stamp) == stamp.over = "loopback"

InTailnet(stamp) == stamp.over = "tailscale" /\ stamp.member

(* Gate 1 of the built-in transport: the identity is bound to a device.    *)
IsBound(stamp, bound) == stamp.over = "iroh" /\ bound[stamp.id] # NoDevice

Authorizes(stamp, bound) ==
  GrantsLocalBypass(stamp) \/ InTailnet(stamp) \/ IsBound(stamp, bound)

BindableIdentity(stamp) == stamp.id

(* A token is known by the device whose row has its hash.                  *)
AuthenticateDevice(token, paired) == token \in paired

Passes(path, stamp, token, bound, paired) ==
  \/ path \in UnauthenticatedPaths
  \/ /\ path \notin TokenOnlyPaths
     /\ \/ GrantsLocalBypass(stamp)
        \/ /\ Authorizes(stamp, bound)
           /\ path \in PeerOnlyPaths \/ AuthenticateDevice(token, paired)
  \/ /\ path \in TokenOnlyPaths /\ stamp.over # "nowhere"
     /\ AuthenticateDevice(token, paired)
=============================================================================
