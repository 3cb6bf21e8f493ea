---------------------------- MODULE MCPipelineRun ----------------------------
EXTENDS PipelineRun
=============================================================================
