----------------------------- MODULE MCIoHandle -----------------------------
(***************************************************************************)
(* Every use of a handle on every platform, two operations, one unit of    *)
(* data in each direction.  Two addresses, so that an IoResult can be      *)
(* where a freed one was.                                                  *)
(***************************************************************************)
EXTENDS IoHandle

CONSTANTS a1, a2

MCPlatforms == {"windows", "epoll", "kqueue"}
MCUses == AllUses
=============================================================================
