--------------------------- MODULE MCStaticFiles ----------------------------
\* Values for the model checker: one asset, one route of the client.
EXTENDS StaticFiles

MCAccepts == {{}, {"gzip", "br"}, {"gzip", "binary"}}
=============================================================================
