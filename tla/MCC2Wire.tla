----------------------------- MODULE MCC2Wire ------------------------------
EXTENDS C2Wire
=============================================================================
