------------------------------ MODULE MCPages ------------------------------
\* The pipeline's instance with a page of the server beside it.
EXTENDS MCPipeline, Pages
=============================================================================
