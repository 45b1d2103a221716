---------------------------- MODULE MCRtpStream -----------------------------
(* RtpStream with small frames, and clock and counters that soon wrap.       *)
EXTENDS RtpStream

MCPayload == [app0 |-> <<7>>, dqt0 |-> <<0, 5>>, dqt1 |-> <<1, 6>>, sof0 |-> <<8, 8>>,
              dht |-> <<4>>, sos |-> <<3>>]

MCRecorded ==
    [app0 : BOOLEAN, tables : BOOLEAN, payload : {MCPayload},
     scan : {<<9>>, <<9, 255, 0>>, <<255, 0, 9, 9>>},
     ending : {<<255, EOI>>, <<>>, <<255, 208, 9, 255, EOI>>},
     padding : {<<>>, <<0>>}]
=============================================================================
