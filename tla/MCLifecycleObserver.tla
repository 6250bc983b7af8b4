------------------------ MODULE MCLifecycleObserver ------------------------
EXTENDS LifecycleObserver
=============================================================================
