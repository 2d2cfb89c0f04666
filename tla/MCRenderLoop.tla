---- MODULE MCRenderLoop ----
(* RenderLoop for two covers and a panel that can be pulled out.            *)
EXTENDS RenderLoop

CONSTANT hd

MCModes == {hd}
MCPowers == {"on", "off"}
====
