---- MODULE MCProgramWrites ----
EXTENDS ProgramWrites, TLC
CONSTANTS w1, w2
\* One write of any connector, whose handler sends two requests, beside one
\* whose connector tracks its one request.
Requests == w1 :> 2 @@ w2 :> 1
Connectors == w1 :> ConnectorKinds @@ w2 :> {"tracked"}
====
