------------------------ MODULE MC_CompartmentErrorHandler ------------------------
EXTENDS CompartmentErrorHandler
=============================================================================
