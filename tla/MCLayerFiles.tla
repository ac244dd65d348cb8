---------------------------- MODULE MCLayerFiles ----------------------------
EXTENDS LayerFiles
=============================================================================
