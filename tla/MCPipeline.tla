----------------------------- MODULE MCPipeline -----------------------------
(* Pipeline on a short file: enough packets of each stream to pass the high *)
(* watermark, four video packets for a seek to leave three of them behind,  *)
(* and one packet of a third stream.  A seek leads to the two large ones,   *)
(* behind which there are too few to prebuffer; it goes forward or back.    *)
EXTENDS Pipeline

MCKind == <<"other", "video", "audio", "video", "audio", "video", "audio", "video">>
MCPktSize == <<1, 1, 1, 1, 2, 3, 3, 1>>
MCSeekPoints == {6}
=============================================================================
