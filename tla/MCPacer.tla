-------------------------------- MODULE MCPacer --------------------------------
EXTENDS Pacer
MCSsrcs == {"audio", "v1", "v2"}
MCPriorityOf == [s \in MCSsrcs |-> IF s = "audio" THEN 1 ELSE 3]
MCSizeOf == [s \in MCSsrcs |-> IF s = "audio" THEN 100 ELSE IF s = "v1" THEN 300 ELSE 100]
MCMaxPackets == ("audio" :> 1 @@ "v1" :> 2 @@ "v2" :> 3)
================================================================================
