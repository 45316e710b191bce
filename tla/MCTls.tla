------------------------------- MODULE MCTls --------------------------------
(***************************************************************************)
(* Peers whose stream ends with a close_notify, is cut off in a record, or *)
(* asks for another handshake.  More records are made than the write       *)
(* buffer has room for.                                                    *)
(***************************************************************************)
EXTENDS Tls

MCStreams == {<<"part", "hs", "h", "1", "t", "bye">>,
              <<"hs", "h", "1">>,
              <<"hs", "reneg", "h", "1", "2", "t">>}
=============================================================================
