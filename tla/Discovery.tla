------------------------------ MODULE Discovery ------------------------------
(* `a2actl discover`: Client.Discover and ValidateCard of a2a/client.go,      *)
(* AgentCard.Interface of a2a/types.go, and runDiscover of cli/cli.go, which  *)
(* prints the interface a user then gives to send and wait.  Every operator   *)
(* is a function of the command's inputs, as in RpcResponse, whose answers    *)
(* and outcomes these are.                                                    *)
(*                                                                            *)
(* A card is a record of                                                      *)
(*   missing      the required members it lacks, blank strings included       *)
(*   skills       for each skill, whether its id, name, description and tags  *)
(*                are there                                                   *)
(*   interfaces   supportedInterfaces, each [binding, version, url]           *)
(* and an interface's URL is one of Url.                                      *)
EXTENDS RpcResponse

CONSTANTS Jsonrpc,    \* the bindings that are "jsonrpc" to TrimSpace and EqualFold
          Version1    \* the protocol versions that are "1.0" to TrimSpace

Required == {"name", "description", "version", "capabilities", "defaultInputModes",
             "defaultOutputModes", "skills"}

(* "plain" and "spaced" parse, with an http or https scheme and a host: the   *)
(* first as it is, the second after TrimSpace.                                *)
Url == {"plain", "spaced", "no host", "other scheme"}

-----------------------------------------------------------------------------
(* AgentCard.Interface: the first entry that fits decides, also when its URL  *)
(* is no good.                                                                *)
SpeaksAnyVersion(it) == it.binding \in Jsonrpc      \* mutant: any version will do
Speaks(it) == it.binding \in Jsonrpc /\ it.version \in Version1
Callable(it) == it.url \in {"plain", "spaced"}

Interface(interfaces) ==
    LET loop[i \in 1 .. Len(interfaces) + 1] ==
            IF i > Len(interfaces) THEN Error("protocol")
            ELSE IF ~Speaks(interfaces[i]) THEN loop[i + 1]
            ELSE IF ~Callable(interfaces[i]) THEN Error("protocol")
            ELSE Accepted("interface", interfaces[i], "none")
    IN  loop[1]

-----------------------------------------------------------------------------
(* The checks doJSON also makes of the answer, without an envelope: a card    *)
(* has no id.  Then ValidateCard: the required members, every skill.          *)
CardError(r, card) ==
    IF HeaderError(r) # "none" THEN HeaderError(r)
    ELSE FirstFailure(<<
        <<r.body # "whole", "transport">>,
        <<r.json # "one-value", "protocol">>,
        <<card.missing # {}, "protocol">>,
        <<\E s \in DOMAIN card.skills : ~card.skills[s], "protocol">> >>)

Discover(r, card) ==
    IF CardError(r, card) # "none" THEN Error(CardError(r, card))
    ELSE Interface(card.interfaces)

(* runDiscover: "usage" before the request is made, for want of an http(s)    *)
(* origin or a timeout, "transport" when there is no answer; it selects again *)
(* (the same function of the same card) and prints the interface's members as *)
(* the peer wrote them.  When that cannot be written, exitCode takes the      *)
(* error for a transport error.                                               *)
runDiscover(reach, r, card, written) ==
    IF reach # "answered" THEN Error(reach)
    ELSE IF Discover(r, card).err = "none" /\ ~written THEN Error("transport")
    ELSE Discover(r, card)

(* What doJSON of a send or wait makes of the URL as it is given.             *)
Reaches(url) == url = "plain"
=============================================================================
